---------------------------- MODULE Spec2Model ----------------------------
(***************************************************************************)
(* Model of the claude_brain indexing engine: the boundary-aware chunker   *)
(* (text_chunker.py), the file processor (file_processor.py), the batched  *)
(* embedding pipeline and vector store (embeddings/embedding_store.py),    *)
(* and the drift detector (drift_monitor.py, schedule_monitor.py).         *)
(*                                                                         *)
(* Strings of the program are sequences of one-character strings, so that  *)
(* slicing, stripping, searching and splitting are computed as the code    *)
(* computes them.                                                          *)
(***************************************************************************)
EXTENDS Integers, Sequences, FiniteSets, TLC

VARIABLES
    \* ---- TextChunker (text_chunker.py) ----
    chunk_size,       \* TextChunker.chunk_size
    overlap,          \* TextChunker.overlap
    ck_pc,            \* position of the running chunk_text / chunk_code call
    text,             \* argument text / code of the call
    source_info,      \* argument source_info of the call
    start,            \* chunk_text: window start offset (0-based)
    chunk_num,        \* next chunk number
    chunks,           \* fragments emitted so far: <<[text, meta]>>
    lines,            \* chunk_code: code.split('\n')
    line_idx,         \* chunk_code: index (1-based) of the next line of the for loop
    current_chunk,    \* chunk_code: pending lines
    current_size,     \* chunk_code: running size of the pending lines
    result,           \* value returned by the last finished call
    \* ---- process_texts_batch and the store (embeddings/embedding_store.py) ----
    store,                   \* rows of the embeddings table, in insertion order
    pp_pc,                   \* position of the running process_texts_batch call
    texts_with_metadata,     \* argument: <<[text, meta]>>
    batch_size,              \* argument batch_size
    outer_i,                 \* i: offset of the outer (count-based) group
    batch,                   \* texts_with_metadata[i:i + batch_size]
    inner_j,                 \* index (1-based) of the next fragment of batch
    current_batch_texts,
    current_batch_metadata,
    current_tokens,
    total_processed,
    ret,                     \* what the call returned: <<>> is None, <<n>> is n
    current_counts,          \* history: text_tokens of the pending fragments
    sub_batches,             \* history: the get_embeddings_batch calls of this call
    provider_calls,          \* history: the client.embeddings.create calls of this call
    \* ---- the tree, the ingest command (claude_brain.py, file_processor.py) and
    \*      the drift cache (drift_monitor.py, schedule_monitor.py) ----
    fs,               \* the files of the project tree: path -> [mode, content]
    token_counts,     \* the counts the tokenizer may answer for a non-empty text
    ing_pc,           \* position of the running ingest command
    file_idx,         \* process_directory: index (1-based) of the next file of the walk
    all_chunks,       \* process_directory: all_chunks
    processed,        \* history: what process_file gave for each file of this walk
    ing_ret,          \* what ingest_directory returned: <<>> not yet, <<n>> is n
    ingests,          \* number of ingest commands started
    started_by,       \* who started the running command: "user", "scheduler"
                      \* (trigger_update) or "auto_update" (drift_monitor.py --auto-update)
    cache,            \* drift_cache.json: the cache document
    \* ---- search_embeddings (embeddings/retrieval_engine.py) ----
    search_pc,        \* position of the search_embeddings call
    query,            \* argument query
    top_n,            \* argument top_n
    results,          \* what the call returned: <<[similarity, file, chunk]>>
    \* ---- the drift monitor run on the tree (drift_monitor.py) ----
    drift_pc,         \* what the monitor did last
    report,           \* what detect_changes or check_drift returned last
    after_update,     \* update_cache ran and nothing was changed since
    cwd_in_root,      \* the monitor's working directory is inside project_root
    edits,            \* changes made to the tree and the cache from outside
    saves,            \* runs of update_cache: the clock of the timestamps
    \* ---- the ignore filters (file_processor.py, drift_monitor.py) ----
    ignore_patterns,  \* the lines loaded from .brainignore
    ignore_path,      \* the path below project_root the walkers ask about
    fp_ignore,        \* FileProcessor._should_ignore: <<>> not asked, <<b>> the answer
    dm_ignore         \* DriftMonitor._should_ignore: <<>> not asked, <<b>> the answer

chunkVars == <<chunk_size, overlap, ck_pc, text, source_info, start, chunk_num,
               chunks, lines, line_idx, current_chunk, current_size, result>>

pipeVars == <<store, pp_pc, texts_with_metadata, batch_size, outer_i, batch, inner_j,
              current_batch_texts, current_batch_metadata, current_tokens,
              total_processed, ret, current_counts, sub_batches, provider_calls>>

ingestVars == <<fs, token_counts, ing_pc, file_idx, all_chunks, processed, ing_ret,
                ingests, started_by, cache>>

searchVars == <<search_pc, query, top_n, results>>

driftVars == <<drift_pc, report, after_update, cwd_in_root, edits, saves>>

ignoreVars == <<ignore_patterns, ignore_path, fp_ignore, dm_ignore>>

vars == <<chunkVars, pipeVars, ingestVars, searchVars, driftVars, ignoreVars>>

\* what the actions of one component leave alone
notChunk == <<pipeVars, ingestVars, searchVars, driftVars, ignoreVars>>
notPipe == <<chunkVars, ingestVars, searchVars, driftVars, ignoreVars>>
notIngest == <<chunkVars, searchVars, driftVars, ignoreVars>>

---------------------------------------------------------------------------
\* Bounds of the model

MaxTextLen == 5        \* longest text handed to chunk_text
SmallChunkSize == 2    \* the two chunk_size values a TextChunker is built with
LargeChunkSize == 6
MaxOverlap == 2        \* overlap ranges over 0..MaxOverlap
MaxCodeLines == 4      \* most lines of a code handed to chunk_code
MaxFragments == 4      \* most fragments handed to process_texts_batch
SmallBatchSize == 2    \* a batch_size below the default, so that outer groups form
MaxIngests == 2        \* ingest commands started in one behaviour
MaxRows == 3           \* most rows of a store that is searched
MaxTopN == 3           \* largest top_n of a search
MaxEdits == 1          \* changes made to the tree and the cache document
MaxSaves == 2          \* runs of update_cache
MaxPatterns == 2       \* most lines of a .brainignore

---------------------------------------------------------------------------
\* Generic helpers

Min(a, b) == IF a <= b THEN a ELSE b
Max(a, b) == IF a >= b THEN a ELSE b
SetMax(S) == CHOOSE x \in S : \A y \in S : y <= x
SetMin(S) == CHOOSE x \in S : \A y \in S : x <= y

\* All sequences over S of length 0..n
SeqsUpTo(S, n) == UNION {[1..k -> S] : k \in 0..n}

\* Python s[a:b] for 0 <= a (b is clipped to len(s))
Slice(s, a, b) == SubSeq(s, a + 1, Min(b, Len(s)))

\* Python's \s and str.strip() whitespace, restricted to the characters used
IsSpace(c) == c \in {" ", "\n", "\t"}

\* str.strip()
Strip(s) ==
    LET keep == {i \in 1..Len(s) : ~IsSpace(s[i])}
    IN  IF keep = {} THEN <<>> ELSE SubSeq(s, SetMin(keep), SetMax(keep))

DigitChars == <<"0", "1", "2", "3", "4", "5", "6", "7", "8", "9">>

\* str(n) for n >= 0
RECURSIVE IntToStr(_)
IntToStr(n) ==
    IF n < 10 THEN <<DigitChars[n + 1]>>
    ELSE IntToStr(n \div 10) \o <<DigitChars[(n % 10) + 1]>>

\* "sep".join(parts)
RECURSIVE Join(_, _)
Join(parts, sep) ==
    IF Len(parts) = 0 THEN <<>>
    ELSE IF Len(parts) = 1 THEN parts[1]
    ELSE parts[1] \o sep \o Join(Tail(parts), sep)

\* s.split('\n'): always at least one part
RECURSIVE SplitLines(_)
SplitLines(s) ==
    LET nl == {i \in 1..Len(s) : s[i] = "\n"}
    IN  IF nl = {} THEN <<s>>
        ELSE LET i == SetMin(nl)
             IN  <<SubSeq(s, 1, i - 1)>> \o SplitLines(SubSeq(s, i + 1, Len(s)))

\* prefix test: s.startswith(p)
StartsWith(s, p) == Len(s) >= Len(p) /\ SubSeq(s, 1, Len(p)) = p

---------------------------------------------------------------------------
\* TextChunker

BoundaryLookback == 200      \* "within the last 200 chars"
OverlapLines == 5            \* current_chunk[-5:]

ChunkTag == <<"_", "c", "h", "u", "n", "k", "_">>

\* f"{source_info}_chunk_{chunk_num}" if source_info else f"chunk_{chunk_num}"
ChunkMetadata(src, n) ==
    IF src # <<>> THEN src \o ChunkTag \o IntToStr(n)
    ELSE Tail(ChunkTag) \o IntToStr(n)

IsSentenceEnd(c) == c \in {".", "!", "?"}

\* end offset of the whitespace run that starts at index j of w
RunEnd(w, j) ==
    SetMax({k \in j..Len(w) : \A m \in j..k : IsSpace(w[m])})

\* TextChunker._find_sentence_boundary(text, start, end)
FindSentenceBoundary(t, s, e) ==
    LET w == Slice(t, s, e)
        \* [.!?]\s+ : a sentence end followed by a (greedy) whitespace run
        sent == {i \in 1..(Len(w) - 1) : IsSentenceEnd(w[i]) /\ IsSpace(w[i + 1])}
        \* \n\s*\n : ends of the matches, the last newline of a whitespace run
        \* that holds an earlier newline
        para == {j \in 1..Len(w) :
                    /\ w[j] = "\n"
                    /\ \E i \in 1..(j - 1) :
                          w[i] = "\n" /\ \A m \in i..j : IsSpace(w[m])}
        brk  == {i \in 1..Len(w) : w[i] = "\n"}
    IN  IF sent # {} THEN s + RunEnd(w, SetMax(sent) + 1)
        ELSE IF para # {} THEN s + SetMax(para)
        ELSE IF brk # {} THEN s + SetMax(brk)
        ELSE e

\* the window end of one iteration of chunk_text's while loop
WindowEnd(t, s, size) ==
    LET naive == s + size
    IN  IF naive < Len(t)
        THEN LET se == FindSentenceBoundary(t, Max(s, naive - BoundaryLookback), naive)
             IN  IF se > s THEN se ELSE naive
        ELSE naive

\* a window start that leaves the character after the window out
NextStartSkipping(s, e, ov) == e + 1

\* a window start that moves by the overlap rule alone, without the "+ 1" floor
NextStartNoFloor(s, e, ov) == e - ov

\* start = max(start + 1, end - self.overlap)
NextStart(s, e, ov) == Max(s + 1, e - ov)

\* the fragments after the chunk of one window has been handled
EmitWindow(cs, n, t, s, e, src) ==
    LET chunk == Strip(Slice(t, s, e))
    IN  IF chunk # <<>>
        THEN Append(cs, [text |-> chunk, meta |-> ChunkMetadata(src, n)])
        ELSE cs

\* a chunk_text that numbers the windows, not the emitted fragments
NumAfterWindowCountsSkipped(n, t, s, e) == n + 1

\* chunk_num after the chunk of one window has been handled
NumAfterWindow(n, t, s, e) ==
    IF Strip(Slice(t, s, e)) # <<>> THEN n + 1 ELSE n

\* re.match(r'^\s*(def|class|function|const|let|var)\s+', line)
Keywords ==
    { <<"d", "e", "f">>, <<"c", "l", "a", "s", "s">>,
      <<"f", "u", "n", "c", "t", "i", "o", "n">>,
      <<"c", "o", "n", "s", "t">>, <<"l", "e", "t">>, <<"v", "a", "r">> }

IsFunctionStart(line) ==
    LET body == {i \in 1..Len(line) : ~IsSpace(line[i])}
        rest == IF body = {} THEN <<>> ELSE SubSeq(line, SetMin(body), Len(line))
    IN  \E k \in Keywords :
            /\ StartsWith(rest, k)
            /\ Len(rest) > Len(k)
            /\ IsSpace(rest[Len(k) + 1])

\* len(line) + 1
LineSize(line) == Len(line) + 1

RECURSIVE SumSizes(_)
SumSizes(ls) == IF ls = <<>> THEN 0 ELSE LineSize(Head(ls)) + SumSizes(Tail(ls))

\* an overlap that carries all pending lines forward
OverlapOfAllLines(cur) == cur

\* current_chunk[-5:] if len(current_chunk) > 5 else current_chunk
OverlapOf(cur) ==
    IF Len(cur) > OverlapLines
    THEN SubSeq(cur, Len(cur) - OverlapLines + 1, Len(cur))
    ELSE cur

\* a flush test that does not ask for pending lines
MustFlushEvenIfEmpty(cur, size, line, limit) == size + LineSize(line) > limit

\* "current_size + line_size > self.chunk_size and current_chunk"
MustFlush(cur, size, line, limit) ==
    size + LineSize(line) > limit /\ cur # <<>>

\* the fragment built from the pending lines
CodeFragment(cur, src, n) ==
    [text |-> Join(cur, <<"\n">>), meta |-> ChunkMetadata(src, n)]

\* how the pending lines continue after a flush triggered by `line`
NextPending(cur, line) ==
    IF IsFunctionStart(line) THEN <<line>> ELSE OverlapOf(cur) \o <<line>>

\* TextChunker.chunk_text as a function: the while loop
RECURSIVE TextLoop(_, _, _, _, _, _, _)
TextLoop(t, src, size, ov, s, n, cs) ==
    IF s < Len(t)
    THEN LET e == WindowEnd(t, s, size)
         IN  TextLoop(t, src, size, ov, NextStart(s, e, ov),
                      NumAfterWindow(n, t, s, e), EmitWindow(cs, n, t, s, e, src))
    ELSE cs

\* a short path that strips the text as the windows of the loop are stripped
ShortResultStripped(t, src) == <<[text |-> Strip(t), meta |-> src]>>

\* "return [(text, source_info)]"
ShortResult(t, src) == <<[text |-> t, meta |-> src]>>

chunk_text(t, src, size, ov) ==
    IF Len(t) <= size THEN ShortResult(t, src)
    ELSE TextLoop(t, src, size, ov, 0, 0, <<>>)

\* TextChunker.chunk_code as a function: the for loop and the final chunk
RECURSIVE CodeLoop(_, _, _, _, _, _, _, _)
CodeLoop(ls, i, src, limit, cur, size, n, cs) ==
    IF i > Len(ls)
    THEN IF cur # <<>> THEN Append(cs, CodeFragment(cur, src, n)) ELSE cs
    ELSE LET line == ls[i]
         IN  IF MustFlush(cur, size, line, limit)
             THEN LET nc == NextPending(cur, line)
                  IN  CodeLoop(ls, i + 1, src, limit, nc, SumSizes(nc), n + 1,
                               Append(cs, CodeFragment(cur, src, n)))
             ELSE CodeLoop(ls, i + 1, src, limit, Append(cur, line),
                           size + LineSize(line), n, cs)

chunk_code(code, src, limit) ==
    CodeLoop(SplitLines(code), 1, src, limit, <<>>, 0, 0, <<>>)

\* ---- inputs of the chunker calls ----
TextAlphabet == {"a", ".", " ", "\n"}
Texts == SeqsUpTo(TextAlphabet, MaxTextLen)
SourceInfos == {<<>>, <<"p">>}
ChunkSizes == {SmallChunkSize, LargeChunkSize}
Overlaps == 0..MaxOverlap
CodeLineSet ==
    { <<>>, <<"x">>, <<" ", "z">>, <<"l", "e", "t", " ", "y">> }
\* codes of more lines than the overlap carries: the first line differs from
\* the others, the last is a definition start or not
LongCodeLines(last) ==
    [k \in 1..(OverlapLines + 2) |->
        IF k = 1 THEN <<"x">>
        ELSE IF k = OverlapLines + 2 THEN last
        ELSE IF k % 2 = 0 THEN <<" ", "z">> ELSE <<>>]
LongCodes == {Join(LongCodeLines(last), <<"\n">>) : last \in {<<"x">>, <<"l", "e", "t", " ", "y">>}}
Codes ==
    {Join(ls, <<"\n">>) : ls \in (SeqsUpTo(CodeLineSet, MaxCodeLines) \ {<<>>})} \cup LongCodes

ChunkIdle ==
    /\ ck_pc = "idle"
    /\ text = <<>>
    /\ source_info = <<>>
    /\ start = 0
    /\ chunk_num = 0
    /\ chunks = <<>>
    /\ lines = <<>>
    /\ line_idx = 1
    /\ current_chunk = <<>>
    /\ current_size = 0
    /\ result = <<>>

\* a chunker that takes no part in the specification
ChunkUnused == chunk_size = LargeChunkSize /\ overlap = 0 /\ ChunkIdle

\* TextChunker.__init__
ChunkInit ==
    /\ chunk_size \in ChunkSizes
    /\ overlap \in Overlaps
    /\ ChunkIdle

\* a call is entered on a chunker that is not inside one (a call keeps nothing
\* of the call before it: every call variable is set anew on entry)
ChunkCallable == ck_pc = "idle"

\* chunk_text, len(text) <= chunk_size: the whole text is the one fragment
ChunkTextShort ==
    /\ ChunkCallable
    /\ \E t \in Texts, src \in SourceInfos :
          /\ Len(t) <= chunk_size
          /\ text' = t
          /\ source_info' = src
          /\ result' = ShortResult(t, src)
    /\ ck_pc' = "text_done"
    /\ start' = 0 /\ chunk_num' = 0 /\ chunks' = <<>>
    /\ lines' = <<>> /\ line_idx' = 1 /\ current_chunk' = <<>> /\ current_size' = 0
    /\ UNCHANGED <<chunk_size, overlap>>
    /\ UNCHANGED notChunk

\* chunk_text, len(text) > chunk_size: enter the while loop
ChunkTextEnter ==
    /\ ChunkCallable
    /\ \E t \in Texts, src \in SourceInfos :
          /\ Len(t) > chunk_size
          /\ text' = t
          /\ source_info' = src
    /\ ck_pc' = "text_loop"
    /\ start' = 0 /\ chunk_num' = 0 /\ chunks' = <<>> /\ result' = <<>>
    /\ lines' = <<>> /\ line_idx' = 1 /\ current_chunk' = <<>> /\ current_size' = 0
    /\ UNCHANGED <<chunk_size, overlap>>
    /\ UNCHANGED notChunk

\* one iteration of the while loop of chunk_text
ChunkTextWindow ==
    /\ ck_pc = "text_loop"
    /\ start < Len(text)
    /\ LET e == WindowEnd(text, start, chunk_size)
       IN  /\ chunks' = EmitWindow(chunks, chunk_num, text, start, e, source_info)
           /\ chunk_num' = NumAfterWindow(chunk_num, text, start, e)
           /\ start' = NextStart(start, e, overlap)
    /\ UNCHANGED <<chunk_size, overlap, ck_pc, text, source_info, lines, line_idx,
                   current_chunk, current_size, result>>
    /\ UNCHANGED notChunk

\* the while loop of chunk_text ends: return chunks
ChunkTextReturn ==
    /\ ck_pc = "text_loop"
    /\ start >= Len(text)
    /\ result' = chunks
    /\ ck_pc' = "text_done"
    /\ UNCHANGED <<chunk_size, overlap, text, source_info, start, chunk_num, chunks,
                   lines, line_idx, current_chunk, current_size>>
    /\ UNCHANGED notChunk

\* chunk_code: split the code into lines and enter the for loop
ChunkCodeEnter ==
    /\ ChunkCallable
    /\ \E code \in Codes, src \in SourceInfos :
          /\ text' = code
          /\ source_info' = src
          /\ lines' = SplitLines(code)
    /\ ck_pc' = "code_loop"
    /\ line_idx' = 1 /\ current_chunk' = <<>> /\ current_size' = 0
    /\ start' = 0 /\ chunk_num' = 0 /\ chunks' = <<>> /\ result' = <<>>
    /\ UNCHANGED <<chunk_size, overlap>>
    /\ UNCHANGED notChunk

\* for loop of chunk_code: the line makes the pending lines exceed chunk_size
ChunkCodeFlush ==
    /\ ck_pc = "code_loop"
    /\ line_idx <= Len(lines)
    /\ MustFlush(current_chunk, current_size, lines[line_idx], chunk_size)
    /\ chunks' = Append(chunks, CodeFragment(current_chunk, source_info, chunk_num))
    /\ chunk_num' = chunk_num + 1
    /\ current_chunk' = NextPending(current_chunk, lines[line_idx])
    /\ current_size' = SumSizes(current_chunk')
    /\ line_idx' = line_idx + 1
    /\ UNCHANGED <<chunk_size, overlap, ck_pc, text, source_info, start, lines, result>>
    /\ UNCHANGED notChunk

\* for loop of chunk_code: the line is added to the pending lines
ChunkCodeAppend ==
    /\ ck_pc = "code_loop"
    /\ line_idx <= Len(lines)
    /\ ~MustFlush(current_chunk, current_size, lines[line_idx], chunk_size)
    /\ current_chunk' = Append(current_chunk, lines[line_idx])
    /\ current_size' = current_size + LineSize(lines[line_idx])
    /\ line_idx' = line_idx + 1
    /\ UNCHANGED <<chunk_size, overlap, ck_pc, text, source_info, start, chunk_num,
                   chunks, lines, result>>
    /\ UNCHANGED notChunk

\* the for loop of chunk_code ends: add the final chunk and return
ChunkCodeReturn ==
    /\ ck_pc = "code_loop"
    /\ line_idx > Len(lines)
    /\ chunks' = IF current_chunk # <<>>
                 THEN Append(chunks, CodeFragment(current_chunk, source_info, chunk_num))
                 ELSE chunks
    /\ result' = chunks'
    /\ ck_pc' = "code_done"
    /\ UNCHANGED <<chunk_size, overlap, text, source_info, start, chunk_num, lines,
                   line_idx, current_chunk, current_size>>
    /\ UNCHANGED notChunk

---------------------------------------------------------------------------
\* Batched embedding pipeline and vector store

TokenBudget == 4000          \* "current_tokens + text_tokens > 4000"
DefaultBatchSize == 100      \* batch_size=100

\* what the tokenizer (or the len(text) // 4 fallback) can report for a text:
\* the tokenizer is external, its count is drawn when the code asks for it
TokenCounts == {1500, 2500, 4500}
TokenCountsFor(t) == IF t = <<>> THEN {0} ELSE token_counts

\* the vector the provider returns for one input text
Embed(t) == [embedding_of |-> t]

\* pickle.dumps / pickle.loads
PickleDumps(v) == [blob |-> v]
PickleLoads(b) == b.blob

\* "text and text.strip()"
IsValidText(t) == t # <<>> /\ Strip(t) # <<>>

\* valid_texts = [text for text in texts if text and text.strip()]
ValidTexts(texts) == SelectSeq(texts, IsValidText)

\* get_embeddings_batch with an error handler that swallows the error
get_embeddings_batch_swallowing(texts, fails) ==
    LET valid == ValidTexts(texts)
    IN  IF texts = <<>> \/ valid = <<>>
        THEN [raised |-> FALSE, called |-> FALSE, embeddings |-> <<>>]
        ELSE IF fails
        THEN [raised |-> FALSE, called |-> TRUE, embeddings |-> <<>>]
        ELSE [raised |-> FALSE, called |-> TRUE,
              embeddings |-> [k \in 1..Len(valid) |-> Embed(valid[k])]]

\* get_embeddings_batch(texts): `fails` says whether the provider call raises.
\* called: whether client.embeddings.create was reached; raised: the exception
\* is printed and re-raised
get_embeddings_batch(texts, fails) ==
    LET valid == ValidTexts(texts)
    IN  IF texts = <<>> \/ valid = <<>>
        THEN [raised |-> FALSE, called |-> FALSE, embeddings |-> <<>>]
        ELSE IF fails
        THEN [raised |-> TRUE, called |-> TRUE, embeddings |-> <<>>]
        ELSE [raised |-> FALSE, called |-> TRUE,
              embeddings |-> [k \in 1..Len(valid) |-> Embed(valid[k])]]

\* items = [(meta, txt, emb) for (txt, meta), emb in zip(zip(texts, metadata), embeddings)]
ZipItems(texts, metas, embeddings) ==
    [k \in 1..Min(Min(Len(texts), Len(metas)), Len(embeddings)) |->
        [file |-> metas[k], chunk |-> texts[k], embedding |-> embeddings[k]]]

\* insert_embeddings_batch(items): one INSERT per item, one commit
insert_embeddings_batch(db, items) ==
    db \o [k \in 1..Len(items) |->
              [file |-> items[k].file, chunk |-> items[k].chunk,
               embedding |-> PickleDumps(items[k].embedding)]]

\* a closing test that looks at the tokens already in the sub-batch only
MustCloseSubBatchLate(tokens, text_tokens, texts) ==
    tokens > TokenBudget /\ texts # <<>>

\* "if current_tokens + text_tokens > 4000 and current_batch_texts"
MustCloseSubBatch(tokens, text_tokens, texts) ==
    tokens + text_tokens > TokenBudget /\ texts # <<>>

\* ---- inputs of process_texts_batch ----
PipeTexts == { <<>>, <<" ">>, <<"a">>, <<"b">> }
\* the fragment at position k carries the id "f<k>"
FragmentList(ts) == [k \in 1..Len(ts) |-> [text |-> ts[k], meta |-> <<"f">> \o IntToStr(k)]]
FragmentLists == {FragmentList(ts) : ts \in SeqsUpTo(PipeTexts, MaxFragments)}
BatchSizes == {SmallBatchSize, DefaultBatchSize}

PipeIdle ==
    /\ pp_pc = "idle"
    /\ texts_with_metadata = <<>>
    /\ batch_size = DefaultBatchSize
    /\ outer_i = 0
    /\ batch = <<>>
    /\ inner_j = 1
    /\ current_batch_texts = <<>>
    /\ current_batch_metadata = <<>>
    /\ current_tokens = 0
    /\ total_processed = 0
    /\ ret = <<>>
    /\ current_counts = <<>>
    /\ sub_batches = <<>>
    /\ provider_calls = <<>>

\* the state of a call that has just been entered
EnterProcess(twm, bs) ==
    /\ texts_with_metadata' = twm
    /\ batch_size' = bs
    /\ pp_pc' = "outer"
    /\ outer_i' = 0
    /\ total_processed' = 0
    /\ batch' = <<>>
    /\ inner_j' = 1
    /\ current_batch_texts' = <<>>
    /\ current_batch_metadata' = <<>>
    /\ current_tokens' = 0
    /\ ret' = <<>>
    /\ current_counts' = <<>>
    /\ sub_batches' = <<>>
    /\ provider_calls' = <<>>

\* process_texts_batch(texts_with_metadata, db_path, batch_size) is called
ProcessCall ==
    /\ pp_pc = "idle"
    /\ \E twm \in FragmentLists, bs \in BatchSizes : EnterProcess(twm, bs)
    /\ UNCHANGED store
    /\ UNCHANGED notPipe

\* for i in range(0, len(texts_with_metadata), batch_size): the next outer group
OuterGroup ==
    /\ pp_pc = "outer"
    /\ outer_i < Len(texts_with_metadata)
    /\ batch' = Slice(texts_with_metadata, outer_i, outer_i + batch_size)
    /\ inner_j' = 1
    /\ current_batch_texts' = <<>>
    /\ current_batch_metadata' = <<>>
    /\ current_tokens' = 0
    /\ current_counts' = <<>>
    /\ pp_pc' = "inner"
    /\ UNCHANGED <<store, texts_with_metadata, batch_size, outer_i, total_processed, ret,
                   sub_batches, provider_calls>>
    /\ UNCHANGED notPipe

\* the history of one get_embeddings_batch call
LogSubBatch(r, fails) ==
    /\ sub_batches' = Append(sub_batches,
          [texts |-> current_batch_texts, metas |-> current_batch_metadata,
           tokens |-> current_tokens, counts |-> current_counts, group |-> outer_i])
    /\ provider_calls' =
          IF r.called
          THEN Append(provider_calls,
                      [input |-> ValidTexts(current_batch_texts), failed |-> fails])
          ELSE provider_calls

\* for text, metadata in batch: the fragment fits, or the sub-batch is empty
InnerAppend ==
    /\ pp_pc = "inner"
    /\ inner_j <= Len(batch)
    /\ \E text_tokens \in TokenCountsFor(batch[inner_j].text) :
          /\ ~MustCloseSubBatch(current_tokens, text_tokens, current_batch_texts)
          /\ current_tokens' = current_tokens + text_tokens
          /\ current_counts' = Append(current_counts, text_tokens)
    /\ current_batch_texts' = Append(current_batch_texts, batch[inner_j].text)
    /\ current_batch_metadata' = Append(current_batch_metadata, batch[inner_j].meta)
    /\ inner_j' = inner_j + 1
    /\ UNCHANGED <<store, pp_pc, texts_with_metadata, batch_size, outer_i, batch,
                   total_processed, ret, sub_batches, provider_calls>>
    /\ UNCHANGED notPipe

\* for text, metadata in batch: the fragment would exceed the budget, the
\* pending sub-batch is embedded and inserted, then the fragment starts the next
InnerClose ==
    /\ pp_pc = "inner"
    /\ inner_j <= Len(batch)
    /\ \E text_tokens \in TokenCountsFor(batch[inner_j].text), fails \in BOOLEAN :
          /\ MustCloseSubBatch(current_tokens, text_tokens, current_batch_texts)
          /\ LET r == get_embeddings_batch(current_batch_texts, fails)
                 items == ZipItems(current_batch_texts, current_batch_metadata,
                                   r.embeddings)
             IN  /\ LogSubBatch(r, fails)
                 /\ IF r.raised
                    THEN /\ pp_pc' = "raised"
                         /\ UNCHANGED <<store, total_processed, current_batch_texts,
                                        current_batch_metadata, current_tokens,
                                        current_counts, inner_j>>
                    ELSE /\ store' = insert_embeddings_batch(store, items)
                         /\ total_processed' = total_processed + Len(items)
                         /\ current_batch_texts' = <<batch[inner_j].text>>
                         /\ current_batch_metadata' = <<batch[inner_j].meta>>
                         /\ current_tokens' = text_tokens
                         /\ current_counts' = <<text_tokens>>
                         /\ inner_j' = inner_j + 1
                         /\ pp_pc' = "inner"
    /\ UNCHANGED <<texts_with_metadata, batch_size, outer_i, batch, ret>>
    /\ UNCHANGED notPipe

\* "Process remaining texts in batch", then the next outer group
FinalSubBatch ==
    /\ pp_pc = "inner"
    /\ inner_j > Len(batch)
    /\ IF current_batch_texts # <<>>
       THEN \E fails \in BOOLEAN :
              LET r == get_embeddings_batch(current_batch_texts, fails)
                  items == ZipItems(current_batch_texts, current_batch_metadata,
                                    r.embeddings)
              IN  /\ LogSubBatch(r, fails)
                  /\ IF r.raised
                     THEN /\ pp_pc' = "raised"
                          /\ UNCHANGED <<store, total_processed, outer_i>>
                     ELSE /\ store' = insert_embeddings_batch(store, items)
                          /\ total_processed' = total_processed + Len(items)
                          /\ outer_i' = outer_i + batch_size
                          /\ pp_pc' = "outer"
       ELSE /\ outer_i' = outer_i + batch_size
            /\ pp_pc' = "outer"
            /\ UNCHANGED <<store, total_processed, sub_batches, provider_calls>>
    /\ UNCHANGED <<texts_with_metadata, batch_size, batch, inner_j, current_batch_texts,
                   current_batch_metadata, current_tokens, current_counts, ret>>
    /\ UNCHANGED notPipe

\* the outer loop ends: the function falls off its end, which returns None
ProcessReturn ==
    /\ pp_pc = "outer"
    /\ outer_i >= Len(texts_with_metadata)
    /\ ret' = <<>>
    /\ pp_pc' = "done"
    /\ UNCHANGED <<store, texts_with_metadata, batch_size, outer_i, batch, inner_j,
                   current_batch_texts, current_batch_metadata, current_tokens,
                   total_processed, current_counts, sub_batches, provider_calls>>
    /\ UNCHANGED notPipe

---------------------------------------------------------------------------
\* Searching in strings (str.lower, the "in" test, str.split, re)

UpperLetters == <<"A", "B", "C", "D", "E", "F", "G", "H", "I", "J", "K", "L", "M", "N", "O", "P", "Q", "R", "S", "T", "U", "V", "W", "X", "Y", "Z">>
LowerLetters == <<"a", "b", "c", "d", "e", "f", "g", "h", "i", "j", "k", "l", "m", "n", "o", "p", "q", "r", "s", "t", "u", "v", "w", "x", "y", "z">>
Digits == {"0", "1", "2", "3", "4", "5", "6", "7", "8", "9"}

\* str.lower(), character by character
LowerChar(c) ==
    IF \E k \in 1..Len(UpperLetters) : UpperLetters[k] = c
    THEN LowerLetters[CHOOSE k \in 1..Len(UpperLetters) : UpperLetters[k] = c]
    ELSE c
Lower(s) == [k \in 1..Len(s) |-> LowerChar(s[k])]

\* the regular expression class \w
IsWordChar(c) ==
    \/ \E k \in 1..Len(LowerLetters) : LowerLetters[k] = c \/ UpperLetters[k] = c
    \/ c \in Digits
    \/ c = "_"

\* whether the literal lit stands at index pos (1-based) of s
LitAt(s, pos, lit) ==
    /\ pos >= 1
    /\ pos + Len(lit) - 1 <= Len(s)
    /\ SubSeq(s, pos, pos + Len(lit) - 1) = lit

\* the indices at which sub occurs in s
Occurrences(s, sub) == {p \in 1..Len(s) : LitAt(s, p, sub)}

\* "sub in s"
Contains(s, sub) == sub = <<>> \/ Occurrences(s, sub) # {}

\* s.split(sub)[0]
SplitFirst(s, sub) ==
    IF Occurrences(s, sub) = {} THEN s
    ELSE SubSeq(s, 1, SetMin(Occurrences(s, sub)) - 1)

\* the index after the greedy run of characters of one class starting at pos
\* (pos itself when the run is empty)
WordRunEnd(s, pos) ==
    SetMin({q \in pos..(Len(s) + 1) : q = Len(s) + 1 \/ ~IsWordChar(s[q])})
NotParenRunEnd(s, pos) ==
    SetMin({q \in pos..(Len(s) + 1) : q = Len(s) + 1 \/ s[q] = ")"})

---------------------------------------------------------------------------
\* FileProcessor: the structural summaries

\* s.split(",")
RECURSIVE SplitCommas(_)
SplitCommas(s) ==
    LET cm == {k \in 1..Len(s) : s[k] = ","}
    IN  IF cm = {} THEN <<s>>
        ELSE <<SubSeq(s, 1, SetMin(cm) - 1)>>
                 \o SplitCommas(SubSeq(s, SetMin(cm) + 1, Len(s)))

\* [arg.arg for arg in node.args.args]: the parameter names between the parentheses
ArgNames(inside) ==
    IF Strip(inside) = <<>> THEN <<>>
    ELSE [k \in 1..Len(SplitCommas(inside)) |-> Strip(SplitCommas(inside)[k])]

\* words that are no statement by themselves
PyReserved ==
    { <<"d", "e", "f">>, <<"c", "l", "a", "s", "s">>,
      <<"i", "m", "p", "o", "r", "t">>, <<"f", "r", "o", "m">>,
      <<"a", "s", "y", "n", "c">> }

\* One Python statement per line, as ast.parse sees the lines the model
\* uses: a blank line, "def NAME(ARGS): BODY", "async def NAME(ARGS): BODY",
\* "class NAME: BODY", "import NAME", "from NAME import NAME", a bare name;
\* any other line is a syntax error.
PyStatement(line) ==
    LET none == [kind |-> "SyntaxError", name |-> <<>>, args |-> <<>>]
        afterKw(kw) == WordRunEnd(line, Len(kw) + 1)
        nameAfter(kw) == SubSeq(line, Len(kw) + 1, afterKw(kw) - 1)
        defAfter(kw, kind) ==
            LET n == afterKw(kw)
                close == NotParenRunEnd(line, n + 1)
            IN  IF /\ n > Len(kw) + 1
                   /\ LitAt(line, n, <<"(">>)
                   /\ LitAt(line, close, <<")", ":">>)
                   /\ Strip(SubSeq(line, close + 2, Len(line))) # <<>>
                THEN [kind |-> kind, name |-> nameAfter(kw),
                      args |-> ArgNames(SubSeq(line, n + 1, close - 1))]
                ELSE none
    IN  IF Strip(line) = <<>> THEN [kind |-> "Blank", name |-> <<>>, args |-> <<>>]
        ELSE IF LitAt(line, 1, <<"d", "e", "f", " ">>)
        THEN defAfter(<<"d", "e", "f", " ">>, "FunctionDef")
        ELSE IF LitAt(line, 1, <<"a", "s", "y", "n", "c", " ", "d", "e", "f", " ">>)
        THEN defAfter(<<"a", "s", "y", "n", "c", " ", "d", "e", "f", " ">>, "AsyncFunctionDef")
        ELSE IF LitAt(line, 1, <<"c", "l", "a", "s", "s", " ">>)
        THEN LET n == afterKw(<<"c", "l", "a", "s", "s", " ">>)
             IN  IF /\ n > Len(<<"c", "l", "a", "s", "s", " ">>) + 1
                    /\ LitAt(line, n, <<":">>)
                    /\ Strip(SubSeq(line, n + 1, Len(line))) # <<>>
                 THEN [kind |-> "ClassDef", name |-> nameAfter(<<"c", "l", "a", "s", "s", " ">>),
                       args |-> <<>>]
                 ELSE none
        ELSE IF LitAt(line, 1, <<"i", "m", "p", "o", "r", "t", " ">>)
        THEN LET n == afterKw(<<"i", "m", "p", "o", "r", "t", " ">>)
             IN  IF n > Len(<<"i", "m", "p", "o", "r", "t", " ">>) + 1 /\ n = Len(line) + 1
                 THEN [kind |-> "Import", name |-> nameAfter(<<"i", "m", "p", "o", "r", "t", " ">>),
                       args |-> <<>>]
                 ELSE none
        ELSE IF LitAt(line, 1, <<"f", "r", "o", "m", " ">>)
        THEN LET n == afterKw(<<"f", "r", "o", "m", " ">>)
                 m == WordRunEnd(line, n + Len(<<" ", "i", "m", "p", "o", "r", "t", " ">>))
             IN  IF /\ n > Len(<<"f", "r", "o", "m", " ">>) + 1
                    /\ LitAt(line, n, <<" ", "i", "m", "p", "o", "r", "t", " ">>)
                    /\ m > n + Len(<<" ", "i", "m", "p", "o", "r", "t", " ">>)
                    /\ m = Len(line) + 1
                 THEN [kind |-> "ImportFrom", name |-> nameAfter(<<"f", "r", "o", "m", " ">>),
                       args |-> SubSeq(line, n + Len(<<" ", "i", "m", "p", "o", "r", "t", " ">>), m - 1)]
                 ELSE none
        ELSE IF /\ WordRunEnd(line, 1) = Len(line) + 1
                /\ line[1] \notin Digits
                /\ line \notin PyReserved
        THEN [kind |-> "Expr", name |-> line, args |-> <<>>]
        ELSE none

\* ast.parse(content): the top-level statements, or a SyntaxError
PyParse(content) ==
    LET ls == SplitLines(content)
        stmts == [k \in 1..Len(ls) |-> PyStatement(ls[k])]
    IN  [ok |-> \A k \in 1..Len(stmts) : stmts[k].kind # "SyntaxError",
         body |-> SelectSeq(stmts, LAMBDA st : st.kind # "Blank")]

\* the summary lines one top-level node adds
PyNodeLines(node) ==
    CASE node.kind = "ClassDef" -> <<<<"C", "l", "a", "s", "s", ":", " ">> \o node.name>>
      [] node.kind = "FunctionDef" ->
            <<<<"F", "u", "n", "c", "t", "i", "o", "n", ":", " ">> \o node.name \o <<"(">>
                  \o Join(node.args, <<",", " ">>) \o <<")">> >>
      [] node.kind = "Import" -> <<<<"I", "m", "p", "o", "r", "t", ":", " ">> \o node.name>>
      [] node.kind = "ImportFrom" ->
            <<<<"F", "r", "o", "m", " ">> \o node.name \o <<" ", "i", "m", "p", "o", "r", "t", ":", " ">> \o node.args>>
      [] OTHER -> <<>>

RECURSIVE PyBodyLines(_)
PyBodyLines(body) ==
    IF body = <<>> THEN <<>>
    ELSE PyNodeLines(Head(body)) \o PyBodyLines(Tail(body))

\* FileProcessor._extract_python_structure
extract_python_structure(content, filepath) ==
    LET tree == PyParse(content)
    IN  IF tree.ok
        THEN Join(<<<<"F", "i", "l", "e", ":", " ">> \o filepath>> \o PyBodyLines(tree.body), <<"\n">>)
        ELSE <<>>

\* ---- regular expressions (re), as the backtracking matcher runs them ----
\* A pattern is a sequence of elements:
\*   Lit(l)          the literal text l
\*   Run(cls, min)   a greedy run of characters of the class: cls+ or cls*
\*   Group(cls, min) the same run as the capturing group of the pattern
\*   Alt(opts, o)    (?:a|b|c), followed by ? when o
\*   Opt(sub)        (?:sub)?
Lit(l) == [kind |-> "lit", lit |-> l]
Run(cls, min) == [kind |-> "run", cls |-> cls, min |-> min, capture |-> FALSE]
Group(cls, min) == [kind |-> "run", cls |-> cls, min |-> min, capture |-> TRUE]
Alt(opts, o) == [kind |-> "alt", options |-> opts, optional |-> o]
Opt(sub) == [kind |-> "opt", sub |-> sub]

\* \s, \w, [^)]
InClass(cls, c) ==
    CASE cls = "space" -> IsSpace(c)
      [] cls = "word" -> IsWordChar(c)
      [] cls = "notparen" -> c # ")"

\* the index after the longest run of the class that starts at pos
ClassRunEnd(cls, s, pos) ==
    SetMin({q \in pos..(Len(s) + 1) : q = Len(s) + 1 \/ ~InClass(cls, s[q])})

RECURSIVE Flatten(_)
Flatten(ss) == IF ss = <<>> THEN <<>> ELSE Head(ss) \o Flatten(Tail(ss))

\* The ways the elements i.. of pat match s at index pos, in the order the
\* matcher tries them (longest run first, alternatives left to right, an
\* optional part present before absent); each way is [end, group]: the index
\* after the match and the text of the capturing group
RECURSIVE MatchFrom(_, _, _, _, _)
MatchFrom(pat, i, s, pos, group) ==
    IF i > Len(pat) THEN <<[end |-> pos, group |-> group]>>
    ELSE CASE pat[i].kind = "lit" ->
                IF LitAt(s, pos, pat[i].lit)
                THEN MatchFrom(pat, i + 1, s, pos + Len(pat[i].lit), group)
                ELSE <<>>
           [] pat[i].kind = "run" ->
                Flatten([k \in 1..(ClassRunEnd(pat[i].cls, s, pos) - pos - pat[i].min + 1) |->
                    MatchFrom(pat, i + 1, s, ClassRunEnd(pat[i].cls, s, pos) - k + 1,
                              IF pat[i].capture
                              THEN SubSeq(s, pos, ClassRunEnd(pat[i].cls, s, pos) - k)
                              ELSE group)])
           [] pat[i].kind = "alt" ->
                Flatten([k \in 1..Len(pat[i].options) |->
                    IF LitAt(s, pos, pat[i].options[k])
                    THEN MatchFrom(pat, i + 1, s, pos + Len(pat[i].options[k]), group)
                    ELSE <<>>])
                  \o (IF pat[i].optional THEN MatchFrom(pat, i + 1, s, pos, group) ELSE <<>>)
           [] pat[i].kind = "opt" ->
                Flatten([k \in 1..Len(MatchFrom(pat[i].sub, 1, s, pos, group)) |->
                    MatchFrom(pat, i + 1, s, MatchFrom(pat[i].sub, 1, s, pos, group)[k].end,
                              group)])
                  \o MatchFrom(pat, i + 1, s, pos, group)

\* re.findall(pat, s) for a pattern with one group: the groups of the
\* matches found from left to right, each search starting where the match
\* before it ended
RECURSIVE findall(_, _, _)
GroupThenRest(pat, s, m) == <<m.group>> \o findall(pat, s, Max(m.end, 1))
findall(pat, s, from) ==
    IF {p \in from..Len(s) : MatchFrom(pat, 1, s, p, <<>>) # <<>>} = {} THEN <<>>
    ELSE GroupThenRest(pat, s,
            Head(MatchFrom(pat, 1, s,
                    SetMin({p \in from..Len(s) : MatchFrom(pat, 1, s, p, <<>>) # <<>>}),
                    <<>>)))

\* ---- the patterns of _extract_js_structure ----
\* function\s+(\w+)\s*\(
func_pattern ==
    <<Lit(<<"f", "u", "n", "c", "t", "i", "o", "n">>), Run("space", 1), Group("word", 1), Run("space", 0), Lit(<<"(">>)>>

\* (?:const|let|var)\s+(\w+)\s*=\s*\([^)]*\)\s*=>
arrow_pattern ==
    <<Alt(<<<<"c", "o", "n", "s", "t">>, <<"l", "e", "t">>, <<"v", "a", "r">>>>, FALSE), Run("space", 1), Group("word", 1),
      Run("space", 0), Lit(<<"=">>), Run("space", 0), Lit(<<"(">>), Run("notparen", 0),
      Lit(<<")">>), Run("space", 0), Lit(<<"=", ">">>)>>

\* class\s+(\w+)
class_pattern == <<Lit(<<"c", "l", "a", "s", "s">>), Run("space", 1), Group("word", 1)>>

\* export\s+(?:default\s+)?(?:class|function|const|let|var)?\s*(\w+)
export_pattern ==
    <<Lit(<<"e", "x", "p", "o", "r", "t">>), Run("space", 1), Opt(<<Lit(<<"d", "e", "f", "a", "u", "l", "t">>), Run("space", 1)>>),
      Alt(<<<<"c", "l", "a", "s", "s">>, <<"f", "u", "n", "c", "t", "i", "o", "n">>, <<"c", "o", "n", "s", "t">>, <<"l", "e", "t">>, <<"v", "a", "r">>>>, TRUE),
      Run("space", 0), Group("word", 1)>>

\* one line of the JavaScript summary, none when the category is empty
JsCategory(label, names) ==
    IF names = <<>> THEN <<>> ELSE <<label \o Join(names, <<",", " ">>)>>

\* "'\n'.join(summary) if len(summary) > 1 else ''"
JoinIfMoreThanHeader(summary) ==
    IF Len(summary) > 1 THEN Join(summary, <<"\n">>) ELSE <<>>

\* FileProcessor._extract_js_structure
extract_js_structure(content, filepath) ==
    JoinIfMoreThanHeader(
        <<<<"F", "i", "l", "e", ":", " ">> \o filepath>>
            \o JsCategory(<<"F", "u", "n", "c", "t", "i", "o", "n", "s", ":", " ">>, findall(func_pattern, content, 1))
            \o JsCategory(<<"A", "r", "r", "o", "w", " ", "F", "u", "n", "c", "t", "i", "o", "n", "s", ":", " ">>, findall(arrow_pattern, content, 1))
            \o JsCategory(<<"C", "l", "a", "s", "s", "e", "s", ":", " ">>, findall(class_pattern, content, 1))
            \o JsCategory(<<"E", "x", "p", "o", "r", "t", "s", ":", " ">>, findall(export_pattern, content, 1)))

---------------------------------------------------------------------------
\* FileProcessor: reading and chunking one file

\* A file of the tree is [mode, content]: mode "ok" is readable UTF-8 text,
\* "perm" makes open() raise PermissionError, "latin" holds bytes that are no
\* UTF-8 (decoding raises UnicodeDecodeError) and that latin-1 decodes to content.
\* open(filepath, 'r', encoding=...) followed by f.read()
ReadFile(f, encoding) ==
    IF f.mode = "perm" THEN [exc |-> "PermissionError", content |-> <<>>]
    ELSE IF f.mode = "latin" /\ encoding = "utf-8"
    THEN [exc |-> "UnicodeDecodeError", content |-> <<>>]
    ELSE [exc |-> "none", content |-> f.content]

\* what a call gives back: the fragments it returns, or the exception it raises
Returns(cs) == [exc |-> "none", chunks |-> cs]
Raises(e) == [exc |-> e, chunks |-> <<>>]

\* the last index of character c in s, 0 when it does not occur (str.rfind)
LastIndexOf(s, c) == SetMax({0} \cup {k \in 1..Len(s) : s[k] = c})

\* os.path.basename
Basename(p) == SubSeq(p, LastIndexOf(p, "/") + 1, Len(p))

\* os.path.splitext(p)[1]: from the last dot of the file name, unless only
\* dots stand before it
Splitext(p) ==
    LET sep == LastIndexOf(p, "/")
        dot == LastIndexOf(p, ".")
    IN  IF dot > sep /\ \E k \in (sep + 1)..(dot - 1) : p[k] # "."
        THEN SubSeq(p, dot, Len(p))
        ELSE <<>>

\* FileProcessor.__init__: the chunker is built with capped sizes
DefaultChunkSize == 1000
DefaultOverlap == 200
SafeChunkCap == 800
SafeOverlapCap == 150
safe_chunk_size == Min(DefaultChunkSize, SafeChunkCap)
safe_overlap == Min(DefaultOverlap, SafeOverlapCap)

\* self.supported_extensions
supported_extensions ==
    { [ext |-> <<".", "p", "y">>, handler |-> "python"],
      [ext |-> <<".", "j", "s">>, handler |-> "javascript"],
      [ext |-> <<".", "t", "s">>, handler |-> "typescript"],
      [ext |-> <<".", "j", "s", "x">>, handler |-> "javascript"],
      [ext |-> <<".", "t", "s", "x">>, handler |-> "typescript"],
      [ext |-> <<".", "m", "d">>, handler |-> "markdown"],
      [ext |-> <<".", "t", "x", "t">>, handler |-> "text"],
      [ext |-> <<".", "j", "s", "o", "n">>, handler |-> "json"],
      [ext |-> <<".", "y", "a", "m", "l">>, handler |-> "text"],
      [ext |-> <<".", "y", "m", "l">>, handler |-> "text"],
      [ext |-> <<".", "h", "t", "m", "l">>, handler |-> "html"],
      [ext |-> <<".", "c", "s", "s">>, handler |-> "css"] }

IsSupported(ext) == \E e \in supported_extensions : e.ext = ext
HandlerOf(ext) == (CHOOSE e \in supported_extensions : e.ext = ext).handler

SummaryTag == <<"_", "s", "u", "m", "m", "a", "r", "y">>

\* the summary placed after the code chunks
InsertSummaryLast(summary, cs, filepath) ==
    IF summary # <<>>
    THEN cs \o <<[text |-> summary, meta |-> filepath \o SummaryTag]>>
    ELSE cs

\* "if summary: chunks.insert(0, (summary, f"{filepath}_summary"))"
InsertSummary(summary, cs, filepath) ==
    IF summary # <<>>
    THEN <<[text |-> summary, meta |-> filepath \o SummaryTag]>> \o cs
    ELSE cs

\* FileProcessor._process_python
process_python(filepath, f) ==
    LET r == ReadFile(f, "utf-8")
    IN  IF r.exc # "none" THEN Raises(r.exc)
        ELSE Returns(InsertSummary(extract_python_structure(r.content, filepath),
                                   chunk_code(r.content, filepath, chunk_size),
                                   filepath))

\* FileProcessor._process_javascript (and _process_typescript, which calls it)
process_javascript(filepath, f) ==
    LET r == ReadFile(f, "utf-8")
    IN  IF r.exc # "none" THEN Raises(r.exc)
        ELSE Returns(InsertSummary(extract_js_structure(r.content, filepath),
                                   chunk_code(r.content, filepath, chunk_size),
                                   filepath))

\* FileProcessor._process_markdown, _process_json, _process_html: read as
\* UTF-8, chunk as text
process_markdown(filepath, f) ==
    LET r == ReadFile(f, "utf-8")
    IN  IF r.exc # "none" THEN Raises(r.exc)
        ELSE Returns(chunk_text(r.content, filepath, chunk_size, overlap))

\* FileProcessor._process_css: read as UTF-8, chunk as code
process_css(filepath, f) ==
    LET r == ReadFile(f, "utf-8")
    IN  IF r.exc # "none" THEN Raises(r.exc)
        ELSE Returns(chunk_code(r.content, filepath, chunk_size))

\* FileProcessor._process_text: only UnicodeDecodeError is handled
process_text(filepath, f) ==
    LET r == ReadFile(f, "utf-8")
        again == ReadFile(f, "latin-1")
    IN  IF r.exc = "none"
        THEN Returns(chunk_text(r.content, filepath, chunk_size, overlap))
        ELSE IF r.exc = "UnicodeDecodeError"
        THEN IF again.exc = "none"
             THEN Returns(chunk_text(again.content, filepath, chunk_size, overlap))
             ELSE Returns(<<>>)
        ELSE Raises(r.exc)

\* self.supported_extensions[ext](filepath)
RunHandler(handler, filepath, f) ==
    CASE handler = "python" -> process_python(filepath, f)
      [] handler \in {"javascript", "typescript"} -> process_javascript(filepath, f)
      [] handler \in {"markdown", "json", "html"} -> process_markdown(filepath, f)
      [] handler = "css" -> process_css(filepath, f)
      [] handler = "text" -> process_text(filepath, f)

\* FileProcessor.process_file for a file that exists, with no ignore pattern
\* loaded (the tree has no .brainignore, so _should_ignore is False)
process_file(filepath, f) ==
    LET ext == Splitext(Lower(filepath))
        r == RunHandler(HandlerOf(ext), filepath, f)
        fallback == process_text(filepath, f)
    IN  IF ~IsSupported(ext) THEN process_text(filepath, f)
        ELSE IF r.exc = "none" THEN r
        ELSE IF r.exc = "PermissionError" THEN Returns(<<>>)
        ELSE IF fallback.exc = "none" THEN fallback
        ELSE Returns(<<>>)

---------------------------------------------------------------------------
\* DriftMonitor: the file snapshot, the store's files, the drift report

\* Path.suffix
PathSuffix(p) ==
    LET name == Basename(p)
        dot == LastIndexOf(name, ".")
    IN  IF 0 < dot - 1 /\ dot - 1 < Len(name) - 1 THEN SubSeq(name, dot, Len(name)) ELSE <<>>

text_extensions ==
    { <<".", "p", "y">>, <<".", "j", "s">>, <<".", "t", "s">>, <<".", "t", "s", "x">>, <<".", "j", "s", "x">>, <<".", "j", "a", "v", "a">>, <<".", "c", "p", "p">>,
      <<".", "c">>, <<".", "h">>, <<".", "c", "s">>, <<".", "p", "h", "p">>, <<".", "r", "b">>, <<".", "g", "o">>, <<".", "r", "s">>,
      <<".", "s", "w", "i", "f", "t">>, <<".", "k", "t">>, <<".", "s", "c", "a", "l", "a">>, <<".", "m", "d">>, <<".", "t", "x", "t">>, <<".", "y", "m", "l">>,
      <<".", "y", "a", "m", "l">>, <<".", "j", "s", "o", "n">>, <<".", "x", "m", "l">>, <<".", "s", "q", "l">>, <<".", "s", "h">>, <<".", "b", "a", "s", "h">>,
      <<".", "z", "s", "h">>, <<".", "f", "i", "s", "h">>, <<".", "p", "s", "1">>, <<".", "d", "o", "c", "k", "e", "r", "f", "i", "l", "e">>, <<".", "m", "a", "k", "e", "f", "i", "l", "e">> }

config_files ==
    { <<"d", "o", "c", "k", "e", "r", "f", "i", "l", "e">>, <<"m", "a", "k", "e", "f", "i", "l", "e">>, <<"r", "a", "k", "e", "f", "i", "l", "e">>, <<"g", "e", "m", "f", "i", "l", "e">>, <<"p", "r", "o", "c", "f", "i", "l", "e">> }

\* DriftMonitor._is_trackable_file
is_trackable_file(p) ==
    \/ Lower(PathSuffix(p)) \in text_extensions
    \/ Lower(Basename(p)) \in config_files

\* hashlib.sha256 of the bytes of a file
Sha256(f) == [digest_of |-> [encoding |-> f.mode, text |-> f.content]]

\* DriftMonitor._get_file_hash: <<>> is the "" of an unreadable file
get_file_hash(f) == IF f.mode = "perm" THEN <<>> ELSE <<Sha256(f)>>

\* DriftMonitor.get_current_file_state (no .brainignore next to the monitor):
\* mtime, size and hash of every trackable file of the walk
get_current_file_state(files) ==
    [p \in {q \in DOMAIN files : is_trackable_file(q)} |->
        [mtime |-> files[p].mtime,
         size |-> Len(files[p].content),
         hash |-> get_file_hash(files[p])]]

\* the file value of a row with its chunk suffix removed
StripChunkSuffix(file_chunk) ==
    IF Contains(file_chunk, ChunkTag) THEN SplitFirst(file_chunk, ChunkTag)
    ELSE file_chunk

\* the file values of the rows as they are, no suffix removed
DatabaseFilesUnstripped(db) == {db[k].file : k \in 1..Len(db)}

\* DriftMonitor.get_database_files
get_database_files(db) == {StripChunkSuffix(db[k].file) : k \in 1..Len(db)}

\* json.dump and json.load
JsonDump(v) == [json_of |-> v]
JsonLoad(t) == t.json_of

\* the cache document drift_cache.json: absent, or a file holding a text (its
\* content is a sequence of one text), or a file that is damaged: text that
\* is not JSON, bytes that are not text, or a file that cannot be opened
CacheAbsent == [kind |-> "absent", content |-> <<>>]
DamagedKinds == {"malformed", "undecodable", "unreadable"}
DamagedCache(kind) == [kind |-> kind, content |-> <<>>]

\* DriftMonitor.save_cached_state: the document is written anew
save_cached_state(file_state, now) ==
    [kind |-> "text",
     content |-> <<JsonDump([timestamp |-> now,
                             file_count |-> Cardinality(DOMAIN file_state),
                             files |-> file_state])>>]

\* DriftMonitor.load_cached_state: the dict read is <<>> for {} and <<files>>
\* for a dict with the key 'files'; only JSONDecodeError and OSError are caught
load_cached_state(doc) ==
    CASE doc.kind = "absent" -> [exc |-> "", value |-> <<>>]
      [] doc.kind = "unreadable" -> [exc |-> "", value |-> <<>>]
      [] doc.kind = "malformed" -> [exc |-> "", value |-> <<>>]
      [] doc.kind = "undecodable" -> [exc |-> "UnicodeDecodeError", value |-> <<>>]
      [] doc.kind = "text" -> [exc |-> "", value |-> <<JsonLoad(doc.content[1]).files>>]

\* the "'files' not in cached_state" test of detect_changes
CachedFiles(cached_state) == IF cached_state = <<>> THEN <<>> ELSE cached_state[1]

\* a modified decision that looks at the mtime
IsModifiedByMtime(current_info, cached_info) == current_info.mtime # cached_info.mtime

\* "if current_info['hash'] != cached_info['hash']"
IsModified(current_info, cached_info) == current_info.hash # cached_info.hash

\* what detect_changes and check_drift give when load_cached_state raised
NoChanges(exc) == [exc |-> exc, new_files |-> {}, deleted_files |-> {}, modified_files |-> {}]

\* DriftMonitor.detect_changes
detect_changes(files, doc) ==
    LET current_state == get_current_file_state(files)
        loaded == load_cached_state(doc)
        cached_files == CachedFiles(loaded.value)
    IN  IF loaded.exc # "" THEN NoChanges(loaded.exc)
        ELSE [exc |-> "",
              new_files |-> DOMAIN current_state \ DOMAIN cached_files,
              deleted_files |-> DOMAIN cached_files \ DOMAIN current_state,
              modified_files |->
                  {p \in DOMAIN current_state \cap DOMAIN cached_files :
                      IsModified(current_state[p], cached_files[p])}]

\* an update decision that looks at the filesystem changes only
NeedsUpdateForChangesOnly(total_changes, alignment_issues) == total_changes > 0

\* "if total_drift > 0: drift_report['needs_update'] = True"
NeedsUpdate(total_changes, alignment_issues) == total_changes + alignment_issues > 0

\* DriftMonitor.check_drift after "self.detect_changes()" has returned
\* changes: the walk of get_current_file_state, the store's files, the report
drift_report(changes, files, db) ==
    LET current_fs_files == DOMAIN get_current_file_state(files)
        db_files == get_database_files(db)
        db_missing_files == current_fs_files \ db_files
        db_stale_files == db_files \ current_fs_files
        total_changes == Cardinality(changes.new_files)
                            + Cardinality(changes.modified_files)
                            + Cardinality(changes.deleted_files)
        alignment_issues == Cardinality(db_missing_files) + Cardinality(db_stale_files)
    IN  IF changes.exc # ""
        THEN [exc |-> changes.exc, new_files |-> {}, modified_files |-> {},
              deleted_files |-> {}, missing_from_db |-> {}, stale_in_db |-> {},
              total_changes |-> 0, alignment_issues |-> 0, files_in_fs |-> 0,
              needs_update |-> FALSE]
        ELSE [exc |-> "",
              new_files |-> changes.new_files,
              modified_files |-> changes.modified_files,
              deleted_files |-> changes.deleted_files,
              missing_from_db |-> db_missing_files,
              stale_in_db |-> db_stale_files,
              total_changes |-> total_changes,
              alignment_issues |-> alignment_issues,
              files_in_fs |-> Cardinality(current_fs_files),
              needs_update |-> NeedsUpdate(total_changes, alignment_issues)]

\* DriftMonitor.check_drift on a tree that nobody touches while it runs
check_drift(files, doc, db) == drift_report(detect_changes(files, doc), files, db)

---------------------------------------------------------------------------
\* Ingesting a tree (ClaudeBrain.ingest_directory) and the scheduled check

\* ---- the trees of the model ----
ProjectFiles == <<<<"r", "/", "a", ".", "p", "y">>, <<"r", "/", "b", ".", "j", "s">>, <<"r", "/", "c", ".", "m", "d">>, <<"r", "/", "d">>>>
ProjectPaths == {ProjectFiles[k] : k \in 1..Len(ProjectFiles)}

Readable(contents) == {[mode |-> "ok", content |-> c, mtime |-> 0] : c \in contents}
Denied == [mode |-> "perm", content |-> <<>>, mtime |-> 0]
Latin(c) == [mode |-> "latin", content |-> c, mtime |-> 0]

FileChoices(p) ==
    CASE p = <<"r", "/", "a", ".", "p", "y">> ->
            Readable({<<>>, <<"x">>, <<"d", "e", "f", " ", "f", "(", "x", ")", ":", " ", "p", "a", "s", "s">>, <<"f", "u", "n", " ", "g">>}) \cup {Denied}
      [] p = <<"r", "/", "b", ".", "j", "s">> ->
            Readable({<<"x">>, <<"f", "u", "n", "c", "t", "i", "o", "n", " ", "g", "(", ")", " ", "{", "}">>}) \cup {Denied}
      [] p = <<"r", "/", "c", ".", "m", "d">> ->
            Readable({<<>>, <<"a", ".", " ", "b">>}) \cup {Denied, Latin(<<"a">>)}
      [] p = <<"r", "/", "d">> ->
            Readable({<<"a">>}) \cup {Denied}

Trees == {t \in [ProjectPaths -> UNION {FileChoices(p) : p \in ProjectPaths}] :
             \A p \in ProjectPaths : t[p] \in FileChoices(p)}

\* a file whose name ends like a fragment id
SummaryNamedPath == <<"r", "/", "a", ".", "p", "y", "_", "s", "u", "m", "m", "a", "r", "y">>

\* the order in which os.walk lists the names of the model
WalkOrder == ProjectFiles \o <<SummaryNamedPath>>

\* "for file in files": the files of the tree
ListedFiles == SelectSeq(WalkOrder, LAMBDA p : p \in DOMAIN fs)

\* the counts the tokenizer answers while a tree is ingested
IngestTokenCounts == {1500}

IngestIdle ==
    /\ ing_pc = "idle"
    /\ file_idx = 1
    /\ all_chunks = <<>>
    /\ processed = <<>>
    /\ ing_ret = <<>>
    /\ ingests = 0
    /\ started_by = "user"
    /\ cache = CacheAbsent

\* no tree is ingested in the specification
IngestUnused == fs = <<>> /\ token_counts = TokenCounts /\ IngestIdle

\* "claude_brain.py ingest <directory>" starts: a new process, a new FileProcessor
EnterIngest(starter) ==
    /\ ing_pc' = "walking"
    /\ file_idx' = 1
    /\ all_chunks' = <<>>
    /\ processed' = <<>>
    /\ ing_ret' = <<>>
    /\ ingests' = ingests + 1
    /\ started_by' = starter

IngestCallable == ing_pc \in {"idle", "returned", "walk_raised", "file_raised", "embed_raised"}

\* the user runs the ingest command on the tree
IngestDirectoryCall ==
    /\ IngestCallable
    /\ ingests < MaxIngests
    /\ EnterIngest("user")
    /\ UNCHANGED <<fs, token_counts, cache>>
    /\ UNCHANGED pipeVars
    /\ UNCHANGED notIngest

\* a check that starts the ingest command when the report asks for it
CheckThenIngest(starter) ==
    /\ ingests < MaxIngests
    /\ IF check_drift(fs, cache, store).exc = "" /\ check_drift(fs, cache, store).needs_update
       THEN EnterIngest(starter)
       ELSE UNCHANGED <<ing_pc, file_idx, all_chunks, processed, ing_ret, ingests,
                        started_by>>
    /\ UNCHANGED <<fs, token_counts, cache>>
    /\ UNCHANGED pipeVars
    /\ UNCHANGED notIngest

\* ScheduledMonitor.check_and_update: check_drift, then trigger_update when
\* the report asks for it, which starts the ingest command
ScheduledCheck ==
    /\ IngestCallable
    /\ CheckThenIngest("scheduler")

\* "drift_monitor.py --check --auto-update": check_drift, then
\* "if args.auto_update and report['needs_update']" the ingest command
AutoUpdateCheck ==
    /\ IngestCallable
    /\ CheckThenIngest("auto_update")

\* trigger_update after the command has ended with return code 0, and the
\* --auto-update branch of drift_monitor.py after os.system: update_cache
CacheAfterSuccess ==
    IF started_by \in {"scheduler", "auto_update"}
    THEN save_cached_state(get_current_file_state(fs), ingests)
    ELSE cache

\* the command has ended with an error: trigger_update leaves the cache
\* alone, the --auto-update branch does not look at what os.system returned
CacheAfterFailure ==
    IF started_by = "auto_update"
    THEN save_cached_state(get_current_file_state(fs), ingests)
    ELSE cache

\* process_directory: "chunks = self.process_file(filepath); all_chunks.extend(chunks)"
\* for the next file of the walk; an exception leaves process_directory,
\* ingest_directory and the command
ProcessNextFile ==
    /\ ing_pc = "walking"
    /\ file_idx <= Len(ListedFiles)
    /\ LET filepath == ListedFiles[file_idx]
           r == IF StartsWith(Basename(filepath), <<".">>)
                THEN Returns(<<>>)
                ELSE process_file(filepath, fs[filepath])
       IN  /\ processed' = Append(processed,
                                  [path |-> filepath, exc |-> r.exc, chunks |-> r.chunks,
                                   read |-> fs[filepath].content])
           /\ IF r.exc = "none"
              THEN /\ all_chunks' = all_chunks \o r.chunks
                   /\ file_idx' = file_idx + 1
                   /\ ing_pc' = "walking"
                   /\ UNCHANGED cache
              ELSE /\ ing_pc' = "walk_raised"
                   /\ cache' = CacheAfterFailure
                   /\ UNCHANGED <<all_chunks, file_idx>>
    /\ UNCHANGED <<fs, token_counts, ing_ret, ingests, started_by>>
    /\ UNCHANGED pipeVars
    /\ UNCHANGED notIngest

\* the walk is over: "if chunks: process_texts_batch(chunks, self.db_path)",
\* else "return 0"
WalkDone ==
    /\ ing_pc = "walking"
    /\ file_idx > Len(ListedFiles)
    /\ IF all_chunks # <<>>
       THEN /\ EnterProcess(all_chunks, DefaultBatchSize)
            /\ ing_pc' = "embedding"
            /\ UNCHANGED <<ing_ret, cache>>
       ELSE /\ ing_ret' = <<0>>
            /\ ing_pc' = "returned"
            /\ cache' = CacheAfterSuccess
            /\ UNCHANGED <<pp_pc, texts_with_metadata, batch_size, outer_i, batch, inner_j,
                           current_batch_texts, current_batch_metadata, current_tokens,
                           total_processed, ret, current_counts, sub_batches,
                           provider_calls>>
    /\ UNCHANGED <<store, fs, token_counts, file_idx, all_chunks, processed, ingests,
                   started_by>>
    /\ UNCHANGED notIngest

\* process_texts_batch has returned: "return len(chunks)"
IngestReturn ==
    /\ ing_pc = "embedding"
    /\ pp_pc = "done"
    /\ ing_ret' = <<Len(all_chunks)>>
    /\ ing_pc' = "returned"
    /\ pp_pc' = "idle"
    /\ cache' = CacheAfterSuccess
    /\ UNCHANGED <<store, texts_with_metadata, batch_size, outer_i, batch, inner_j,
                   current_batch_texts, current_batch_metadata, current_tokens,
                   total_processed, ret, current_counts, sub_batches, provider_calls>>
    /\ UNCHANGED <<fs, token_counts, file_idx, all_chunks, processed, ingests, started_by>>
    /\ UNCHANGED notIngest

\* process_texts_batch has raised: the command ends with an error, the rows
\* committed before stay
IngestRaise ==
    /\ ing_pc = "embedding"
    /\ pp_pc = "raised"
    /\ ing_pc' = "embed_raised"
    /\ pp_pc' = "idle"
    /\ cache' = CacheAfterFailure
    /\ UNCHANGED <<store, texts_with_metadata, batch_size, outer_i, batch, inner_j,
                   current_batch_texts, current_batch_metadata, current_tokens,
                   total_processed, ret, current_counts, sub_batches, provider_calls>>
    /\ UNCHANGED <<fs, token_counts, file_idx, all_chunks, processed, ing_ret, ingests,
                   started_by>>
    /\ UNCHANGED notIngest

---------------------------------------------------------------------------
\* Retrieval engine (embeddings/retrieval_engine.py)

\* ---- the numbers of the provider's vectors ----
\* the provider answers each text with a vector; the texts of the model and
\* their vectors: equal directions, opposite directions, a zero vector
ProviderVector(t) ==
    CASE t = <<"u">> -> <<1, 0>>
      [] t = <<"p">> -> <<2, 0>>
      [] t = <<"n">> -> <<-1, 0>>
      [] t = <<"w">> -> <<3, 4>>
      [] t = <<"z">> -> <<0, 0>>

\* np.array of an embedding
VectorOf(embedding) == ProviderVector(embedding.embedding_of)

\* np.dot(a, b)
Dot(a, b) == a[1] * b[1] + a[2] * b[2]

\* np.linalg.norm(a): the vectors of the model have whole-number lengths
Norm(a) == CHOOSE r \in 0..Dot(a, a) : r * r = Dot(a, a)

\* a float: the fraction num / den (den > 0), or nan
NaN == [nan |-> TRUE, num |-> 0, den |-> 1]
Frac(n, d) == [nan |-> FALSE, num |-> n, den |-> d]

\* cosine_similarity(a, b): 0.0 / 0.0 is nan in numpy, not an exception
cosine_similarity(a, b) ==
    IF Norm(a) * Norm(b) = 0 THEN NaN ELSE Frac(Dot(a, b), Norm(a) * Norm(b))

\* x < y and x == y on floats: false whenever nan takes part
FloatLt(x, y) == ~x.nan /\ ~y.nan /\ x.num * y.den < y.num * x.den
FloatEq(x, y) == ~x.nan /\ ~y.nan /\ x.num * y.den = y.num * x.den

\* the characters of the ids and texts of the model in code point order
CodePointOrder ==
    <<" ", ".", "/", "0", "1", "2", "3", "4", "5", "6", "7", "8", "9", "_">> \o LowerLetters
CodePoint(c) == CHOOSE k \in 1..Len(CodePointOrder) : CodePointOrder[k] = c

\* a < b on str
RECURSIVE StrLt(_, _)
StrLt(a, b) ==
    IF b = <<>> THEN FALSE
    ELSE IF a = <<>> THEN TRUE
    ELSE IF Head(a) # Head(b) THEN CodePoint(Head(a)) < CodePoint(Head(b))
    ELSE StrLt(Tail(a), Tail(b))

\* x < y on the tuples (similarity, file, chunk): the first component that is
\* not == decides
TupleLt(x, y) ==
    IF ~FloatEq(x.similarity, y.similarity) THEN FloatLt(x.similarity, y.similarity)
    ELSE IF x.file # y.file THEN StrLt(x.file, y.file)
    ELSE StrLt(x.chunk, y.chunk)

\* ---- list.sort as CPython runs it on a short list ----
Reverse(a) == [k \in 1..Len(a) |-> a[Len(a) + 1 - k]]

\* count_run: the length of the run the list starts with, strictly
\* descending (then reversed in place) or else non-descending
RunDescends(a) == Len(a) >= 2 /\ TupleLt(a[2], a[1])
RunLength(a) ==
    IF Len(a) < 2 THEN Len(a)
    ELSE SetMin({k \in 2..Len(a) :
                    \/ k = Len(a)
                    \/ (RunDescends(a) /\ ~TupleLt(a[k + 1], a[k]))
                    \/ (~RunDescends(a) /\ TupleLt(a[k + 1], a[k]))})
AfterCountRun(a) ==
    IF RunDescends(a)
    THEN Reverse(SubSeq(a, 1, RunLength(a))) \o SubSeq(a, RunLength(a) + 1, Len(a))
    ELSE a

\* binarysort: where the pivot goes into the sorted a[l+1..r] (0-based l, r)
RECURSIVE BinaryPosition(_, _, _, _)
BinaryPosition(a, pivot, l, r) ==
    IF l >= r THEN l
    ELSE IF TupleLt(pivot, a[l + ((r - l) \div 2) + 1])
    THEN BinaryPosition(a, pivot, l, l + ((r - l) \div 2))
    ELSE BinaryPosition(a, pivot, l + ((r - l) \div 2) + 1, r)

InsertAt(a, pos, x) == SubSeq(a, 1, pos) \o <<x>> \o SubSeq(a, pos + 1, Len(a))

\* binarysort: the elements from index k on are inserted one by one
RECURSIVE BinarySort(_, _)
BinarySort(a, k) ==
    IF k > Len(a) THEN a
    ELSE BinarySort(InsertAt(SubSeq(a, 1, k - 1),
                             BinaryPosition(a, a[k], 0, k - 1), a[k])
                        \o SubSeq(a, k + 1, Len(a)),
                    k + 1)

\* a sort that leaves the list in scan order
SortKeepingScanOrder(a) == a

\* results.sort(reverse=True): reverse, sort ascending, reverse
SortReverse(a) == Reverse(BinarySort(AfterCountRun(Reverse(a)), RunLength(Reverse(a)) + 1))

\* "for file, chunk, blob in c.fetchall()": one scored tuple per row
ScoreRows(query_embedding, db) ==
    [k \in 1..Len(db) |->
        [similarity |-> cosine_similarity(VectorOf(query_embedding),
                                          VectorOf(PickleLoads(db[k].embedding))),
         file |-> db[k].file,
         chunk |-> db[k].chunk]]

\* results[:top_n]
Prefix(a, n) == SubSeq(a, 1, Min(n, Len(a)))

\* search_embeddings(query, db_path, top_n), the provider having answered
search_embeddings(q, db, n) == Prefix(SortReverse(ScoreRows(Embed(q), db)), n)

\* ---- inputs of search_embeddings ----
SearchTexts == { <<"u">>, <<"p">>, <<"n">>, <<"w">>, <<"z">> }
SearchFiles == { <<"f", "1">>, <<"f", "2">> }
SearchRows ==
    {[file |-> f, chunk |-> <<"a">>, embedding |-> PickleDumps(Embed(t))] :
        f \in SearchFiles, t \in SearchTexts}
SearchStores == SeqsUpTo(SearchRows, MaxRows)

SearchIdle ==
    /\ search_pc = "idle"
    /\ query = <<>>
    /\ top_n = 0
    /\ results = <<>>

\* search_embeddings(query, top_n=n) runs: the provider embeds the query or
\* raises, the store is scanned, scored, sorted and cut
SearchCall ==
    /\ search_pc = "idle"
    /\ \E q \in SearchTexts, n \in 0..MaxTopN, fails \in BOOLEAN :
          /\ query' = q
          /\ top_n' = n
          /\ IF fails
             THEN search_pc' = "raised" /\ results' = <<>>
             ELSE search_pc' = "done" /\ results' = search_embeddings(q, store, n)
    /\ UNCHANGED <<chunkVars, pipeVars, ingestVars, driftVars, ignoreVars>>

---------------------------------------------------------------------------
\* The drift monitor at work (drift_monitor.py): the tree changes, the cache
\* document is written, damaged or removed, detect_changes and check_drift run

\* the cache document is "drift_cache.json" in the working directory of the
\* monitor: inside the walked tree when that directory is inside project_root
CachePath == <<"r", "/", "d", "r", "i", "f", "t", "_", "c", "a", "c", "h", "e", ".", "j", "s", "o", "n">>

\* the cache document as a file of the walk
CacheFile(doc) ==
    [mode |-> IF doc.kind = "unreadable" THEN "perm" ELSE doc.kind,
     content |-> doc.content,
     mtime |-> 0]

\* the files os.walk(project_root) meets
WalkedTree(tree, doc, in_root) ==
    IF in_root /\ doc.kind # "absent"
    THEN [p \in DOMAIN tree \cup {CachePath} |->
             IF p = CachePath THEN CacheFile(doc) ELSE tree[p]]
    ELSE tree

\* DriftMonitor.update_cache: the snapshot is taken, then saved
update_cache(tree, doc, in_root, now) ==
    save_cached_state(get_current_file_state(WalkedTree(tree, doc, in_root)), now)

\* the trees, contents and stores of the monitor's runs
DriftPaths == { <<"r", "/", "a", ".", "p", "y">>, <<"r", "/", "c", ".", "m", "d">>, <<"r", "/", "d">> }
DriftContents == { <<"x">>, <<"y", "y">> }
DriftTrees ==
    UNION {[S -> Readable({<<"x">>})] : S \in {T \in SUBSET DriftPaths : <<"r", "/", "d">> \in T}}

StoreRow(file, chunk) == [file |-> file, chunk |-> chunk, embedding |-> PickleDumps(Embed(chunk))]
DriftStores ==
    { <<>>,
      <<StoreRow(<<"r", "/", "a", ".", "p", "y">>, <<"x">>)>>,
      <<StoreRow(<<"r", "/", "a", ".", "p", "y">> \o ChunkTag \o <<"0">>, <<"x">>),
        StoreRow(<<"r", "/", "a", ".", "p", "y">> \o ChunkTag \o <<"1">>, <<"x">>),
        StoreRow(<<"r", "/", "c", ".", "m", "d">>, <<"x">>)>>,
      <<StoreRow(<<"r", "/", "a", ".", "p", "y">> \o SummaryTag, <<"x">>),
        StoreRow(<<"r", "/", "c", ".", "m", "d">> \o ChunkTag \o <<"0">>, <<"x">>),
        StoreRow(<<"r", "/", "d">>, <<"x">>),
        StoreRow(<<"r", "/", "g", ".", "p", "y">> \o ChunkTag \o <<"0">>, <<"x">>)>> }

DriftIdle ==
    /\ drift_pc = "idle"
    /\ report = NoChanges("")
    /\ after_update = FALSE
    /\ edits = 0
    /\ saves = 0

\* the monitor is not run
DriftUnused == cwd_in_root = FALSE /\ DriftIdle

driftRest == <<chunkVars, pipeVars, searchVars, token_counts, ing_pc, file_idx,
               all_chunks, processed, ing_ret, ingests, started_by, cwd_in_root,
               ignoreVars>>

\* the tree or the cache document was changed from outside: what the monitor
\* reported before is of the past
Changed ==
    /\ edits < MaxEdits
    /\ edits' = edits + 1
    /\ IF drift_pc \in {"checking", "checking_changed"}
       THEN drift_pc' = "checking_changed" /\ UNCHANGED report
       ELSE drift_pc' = "idle" /\ report' = NoChanges("")
    /\ after_update' = FALSE
    /\ UNCHANGED <<saves, driftRest>>

\* a file is created or written; writing what it holds changes its mtime only
WriteFile ==
    /\ \E p \in DriftPaths, c \in DriftContents :
          fs' = [q \in DOMAIN fs \cup {p} |->
                    IF q = p THEN [mode |-> "ok", content |-> c, mtime |-> edits + 1]
                    ELSE fs[q]]
    /\ Changed
    /\ UNCHANGED cache

\* a file is removed
DeleteFile ==
    /\ \E p \in DOMAIN fs : fs' = [q \in DOMAIN fs \ {p} |-> fs[q]]
    /\ Changed
    /\ UNCHANGED cache

\* the cache document is damaged
DamageCache ==
    /\ \E kind \in DamagedKinds : cache' = DamagedCache(kind)
    /\ Changed
    /\ UNCHANGED fs

\* the cache document is removed
RemoveCache ==
    /\ cache.kind # "absent"
    /\ cache' = CacheAbsent
    /\ Changed
    /\ UNCHANGED fs

\* DriftMonitor.update_cache
UpdateCache ==
    /\ drift_pc \notin {"checking", "checking_changed"}
    /\ saves < MaxSaves
    /\ saves' = saves + 1
    /\ cache' = update_cache(fs, cache, cwd_in_root, saves + 1)
    /\ drift_pc' = "updated"
    /\ report' = NoChanges("")
    /\ after_update' = TRUE
    /\ UNCHANGED <<fs, edits, driftRest>>

\* DriftMonitor.detect_changes
DetectChanges ==
    /\ drift_pc \notin {"checking", "checking_changed"}
    /\ LET changes == detect_changes(WalkedTree(fs, cache, cwd_in_root), cache)
       IN  /\ report' = changes
           /\ drift_pc' = IF changes.exc # "" THEN "raised" ELSE "detected"
    /\ UNCHANGED <<fs, cache, after_update, edits, saves, driftRest>>

\* DriftMonitor.check_drift, its first statement:
\* "new_files, modified_files, deleted_files = self.detect_changes()"
CheckDriftDetect ==
    /\ drift_pc \notin {"checking", "checking_changed"}
    /\ LET changes == detect_changes(WalkedTree(fs, cache, cwd_in_root), cache)
       IN  /\ report' = changes
           /\ drift_pc' = IF changes.exc # "" THEN "raised" ELSE "checking"
    /\ UNCHANGED <<fs, cache, after_update, edits, saves, driftRest>>

\* DriftMonitor.check_drift, the rest: "current_state =
\* self.get_current_file_state()" walks the tree as it is now, then the
\* store's files are read and the report is built
CheckDriftAlign ==
    /\ drift_pc \in {"checking", "checking_changed"}
    /\ report' = drift_report(report, WalkedTree(fs, cache, cwd_in_root), store)
    /\ drift_pc' = "checked"
    /\ UNCHANGED <<fs, cache, after_update, edits, saves, driftRest>>

---------------------------------------------------------------------------
\* The ignore filters (file_processor.py, drift_monitor.py)

\* s.endswith(suf)
EndsWith(s, suf) == Len(s) >= Len(suf) /\ SubSeq(s, Len(s) - Len(suf) + 1, Len(s)) = suf

\* s.rstrip('/')
RECURSIVE RStripSlash(_)
RStripSlash(s) ==
    IF s # <<>> /\ s[Len(s)] = "/" THEN RStripSlash(SubSeq(s, 1, Len(s) - 1)) ELSE s

\* fnmatch.fnmatch(name, pat) on POSIX for patterns of literals, "*" and "?":
\* the whole name must match, "*" matches any run of characters, "/" included
RECURSIVE FnMatch(_, _)
FnMatch(name, pat) ==
    IF pat = <<>> THEN name = <<>>
    ELSE IF Head(pat) = "*"
    THEN \E k \in 0..Len(name) : FnMatch(SubSeq(name, k + 1, Len(name)), Tail(pat))
    ELSE IF name = <<>> THEN FALSE
    ELSE IF Head(pat) = "?" THEN FnMatch(Tail(name), Tail(pat))
    ELSE Head(name) = Head(pat) /\ FnMatch(Tail(name), Tail(pat))

\* '/'.join(path_parts[i:]) for every i: the path and what follows each "/"
SubPaths(path) ==
    {path} \cup {SubSeq(path, k + 1, Len(path)) : k \in {j \in 1..Len(path) : path[j] = "/"}}

\* FileProcessor._should_ignore: one pattern of the loop
FileProcessorPatternHits(filepath, pattern) ==
    IF EndsWith(pattern, <<"/">>)
    THEN LET dir == RStripSlash(pattern)
         IN  \/ Contains(<<"/">> \o filepath \o <<"/">>, <<"/">> \o dir \o <<"/">>)
             \/ EndsWith(filepath, <<"/">> \o dir)
    ELSE \/ FnMatch(filepath, pattern)
         \/ FnMatch(Basename(filepath), pattern)
         \/ /\ Contains(pattern, <<"/">>)
            /\ \E sub \in SubPaths(filepath) : FnMatch(sub, pattern)

\* FileProcessor._should_ignore(filepath) with self.ignore_patterns = patterns
FileProcessor_should_ignore(filepath, patterns) ==
    \E k \in 1..Len(patterns) : FileProcessorPatternHits(filepath, patterns[k])

\* str(file_path.relative_to(self.project_root))
RelativeTo(path, root) == SubSeq(path, Len(root) + 2, Len(path))

\* DriftMonitor._should_ignore: one pattern of the loop
DriftMonitorPatternHits(path_str, pattern) ==
    IF EndsWith(pattern, <<"/">>)
    THEN StartsWith(path_str, pattern) \/ Contains(path_str, <<"/">> \o pattern)
    ELSE IF StartsWith(pattern, <<"*", ".">>)
    THEN EndsWith(path_str, Tail(pattern))
    ELSE Contains(path_str, pattern)

\* DriftMonitor._should_ignore(file_path) with self.brainignore_patterns = patterns
DriftMonitor_should_ignore(file_path, root, patterns) ==
    \E k \in 1..Len(patterns) : DriftMonitorPatternHits(RelativeTo(file_path, root), patterns[k])

\* the project root both walkers are given
IgnoreRoot == <<"r">>

\* the lines of .brainignore: an extension, a name, a name with a wildcard, a
\* directory, what lies in a directory
IgnoreLines ==
    { <<"*", ".", "p", "y">>, <<"*", ".", "m", "d">>, <<"t", "e", "s", "t">>, <<"a", "?", ".", "p", "y">>, <<"b", "u", "i", "l", "d", "/">>, <<"b", "u", "i", "l", "d", "/", "*">>, <<"r", "/", "*">> }

\* the files asked about, all of an extension both walkers handle
IgnorePaths ==
    { <<"r", "/", "a", ".", "p", "y">>,
      <<"r", "/", "a", "b", ".", "p", "y">>,
      <<"r", "/", "t", "e", "s", "t", "_", "a", ".", "p", "y">>,
      <<"r", "/", "b", "u", "i", "l", "d", "/", "a", ".", "p", "y">>,
      <<"r", "/", "s", "r", "c", "/", "b", "u", "i", "l", "d", "/", "a", ".", "p", "y">>,
      <<"r", "/", "m", "y", "b", "u", "i", "l", "d", "/", "a", ".", "p", "y">> }

IgnoreUnused ==
    /\ ignore_patterns = <<>>
    /\ ignore_path = <<>>
    /\ fp_ignore = <<>>
    /\ dm_ignore = <<>>

\* process_directory asks "self._should_ignore(filepath)" for the file
AskFileProcessor ==
    /\ fp_ignore = <<>>
    /\ fp_ignore' = <<FileProcessor_should_ignore(ignore_path, ignore_patterns)>>
    /\ UNCHANGED <<ignore_patterns, ignore_path, dm_ignore>>
    /\ UNCHANGED <<chunkVars, pipeVars, ingestVars, searchVars, driftVars>>

\* get_current_file_state asks "self._should_ignore(file_path)" for the file
AskDriftMonitor ==
    /\ dm_ignore = <<>>
    /\ dm_ignore' = <<DriftMonitor_should_ignore(ignore_path, IgnoreRoot, ignore_patterns)>>
    /\ UNCHANGED <<ignore_patterns, ignore_path, fp_ignore>>
    /\ UNCHANGED <<chunkVars, pipeVars, ingestVars, searchVars, driftVars>>

---------------------------------------------------------------------------
\* Specifications

\* the chunker alone: one TextChunker, one call of chunk_text or chunk_code
ChunkNext ==
    \/ ChunkTextShort
    \/ ChunkTextEnter
    \/ ChunkTextWindow
    \/ ChunkTextReturn
    \/ ChunkCodeEnter
    \/ ChunkCodeFlush
    \/ ChunkCodeAppend
    \/ ChunkCodeReturn

ChunkSpecInit == ChunkInit /\ PipeIdle /\ store = <<>> /\ IngestUnused /\ SearchIdle /\ DriftUnused /\ IgnoreUnused

SpecChunk == ChunkSpecInit /\ [][ChunkNext]_vars

\* the pipeline alone: one call of process_texts_batch on an empty store
PipeNext ==
    \/ ProcessCall
    \/ OuterGroup
    \/ InnerAppend
    \/ InnerClose
    \/ FinalSubBatch
    \/ ProcessReturn

PipeSpecInit == ChunkUnused /\ PipeIdle /\ store = <<>> /\ IngestUnused /\ SearchIdle /\ DriftUnused /\ IgnoreUnused

SpecPipe == PipeSpecInit /\ [][PipeNext]_vars

\* ingesting a tree: the ingest command run by the user or by the scheduled
\* check, on an empty store with no drift cache
IngestNext ==
    \/ IngestDirectoryCall
    \/ ScheduledCheck
    \/ ProcessNextFile
    \/ WalkDone
    \/ OuterGroup
    \/ InnerAppend
    \/ InnerClose
    \/ FinalSubBatch
    \/ ProcessReturn
    \/ IngestReturn
    \/ IngestRaise

IngestSpecInit ==
    /\ chunk_size = safe_chunk_size
    /\ overlap = safe_overlap
    /\ ChunkIdle
    /\ PipeIdle
    /\ store = <<>>
    /\ fs \in Trees
    /\ token_counts = IngestTokenCounts
    /\ IngestIdle
    /\ SearchIdle
    /\ DriftUnused
    /\ IgnoreUnused

SpecIngest == IngestSpecInit /\ [][IngestNext]_vars

\* searching a store: one call of search_embeddings on rows written earlier
SearchNext == SearchCall

SearchSpecInit ==
    /\ ChunkUnused
    /\ PipeIdle
    /\ store \in SearchStores
    /\ IngestUnused
    /\ SearchIdle
    /\ DriftUnused
    /\ IgnoreUnused

SpecSearch == SearchSpecInit /\ [][SearchNext]_vars

\* the drift monitor: a tree, a store written earlier, no cache document yet
DriftNext ==
    \/ WriteFile
    \/ DeleteFile
    \/ DamageCache
    \/ RemoveCache
    \/ UpdateCache
    \/ DetectChanges
    \/ CheckDriftDetect
    \/ CheckDriftAlign

DriftSpecInit ==
    /\ ChunkUnused
    /\ PipeIdle
    /\ store \in DriftStores
    /\ fs \in DriftTrees
    /\ token_counts = TokenCounts
    /\ IngestIdle
    /\ SearchIdle
    /\ cwd_in_root \in BOOLEAN
    /\ DriftIdle
    /\ IgnoreUnused

SpecDrift == DriftSpecInit /\ [][DriftNext]_vars

---------------------------------------------------------------------------
\* Claims about the chunker

Returned == ck_pc \in {"text_done", "code_done"}

\* "{source_id}_chunk_{k}"
SuffixedId(src, k) == src \o <<"_", "c", "h", "u", "n", "k", "_">> \o IntToStr(k)

\* the id the code gives the k-th emitted fragment of a numbered call
NumberedId(src, k) ==
    IF src = <<>> THEN <<"c", "h", "u", "n", "k", "_">> \o IntToStr(k)
    ELSE SuffixedId(src, k)

\* C4 as stated: in chunk_text and chunk_code the k-th fragment returned has
\* id "{source_id}_chunk_{k}", k = 0, 1, ... without gaps, except that a call
\* returning a single fragment gives it the bare source_id.
C4_IdsAsClaimed ==
    Returned =>
        IF Len(result) = 1 THEN result[1].meta = source_info
        ELSE \A k \in 1..Len(result) : result[k].meta = SuffixedId(source_info, k - 1)

\* C4 amended: the k-th emitted fragment (k = 0, 1, ... without gaps) has id
\* "{source_id}_chunk_{k}" ("chunk_{k}" for an empty source_id) in chunk_code
\* always, also when it is the only fragment, and in chunk_text whenever
\* len(text) > chunk_size; the bare source_id is the id only of the single
\* fragment chunk_text returns for a text with len(text) <= chunk_size.
C4_ChunkIds ==
    /\ ck_pc \in {"text_loop", "code_loop"} =>
          \A k \in 1..Len(chunks) : chunks[k].meta = NumberedId(source_info, k - 1)
    /\ ck_pc = "code_done" =>
          \A k \in 1..Len(result) : result[k].meta = NumberedId(source_info, k - 1)
    /\ ck_pc = "text_done" =>
          IF Len(text) <= chunk_size
          THEN Len(result) = 1 /\ result[1].meta = source_info
          ELSE \A k \in 1..Len(result) : result[k].meta = NumberedId(source_info, k - 1)

\* C4 witness: chunk_code returned a single fragment for a named source, and
\* the fragment carries the _chunk_0 suffix
C4_Witness ==
    /\ ck_pc = "code_done"
    /\ source_info # <<>>
    /\ Len(result) = 1
    /\ result[1].meta = SuffixedId(source_info, 0)

\* C5 as stated: every fragment chunk_text or chunk_code returns has at most
\* chunk_size characters.
C5_FragmentsWithinChunkSize ==
    Returned => \A k \in 1..Len(result) : Len(result[k].text) <= chunk_size

---------------------------------------------------------------------------
\* Claims about the embedding pipeline

RECURSIVE SumSeq(_)
SumSeq(q) == IF q = <<>> THEN 0 ELSE Head(q) + SumSeq(Tail(q))

\* the number of rows the sub-batches before the n-th one produce: one per
\* text the provider embeds
RECURSIVE RowsBefore(_)
RowsBefore(n) ==
    IF n <= 1 THEN 0
    ELSE RowsBefore(n - 1) + Len(ValidTexts(sub_batches[n - 1].texts))

\* C1 as stated: every persisted row is a (source_id, fragment_text, vector)
\* triple of an input fragment whose vector is the embedding the provider
\* returned for that very fragment_text, also in sub-batches that hold empty
\* or whitespace-only fragments.
C1_RowCarriesItsOwnEmbedding ==
    \A r \in 1..Len(store) :
        /\ \E k \in 1..Len(texts_with_metadata) :
              /\ texts_with_metadata[k].meta = store[r].file
              /\ texts_with_metadata[k].text = store[r].chunk
        /\ PickleLoads(store[r].embedding) = Embed(store[r].chunk)

\* C2 as stated: when no provider call fails, process_texts_batch returns the
\* number of rows it added to the store.
C2_ReturnsPersistedCount ==
    pp_pc = "done" => ret = <<Len(store)>>

\* C9: no get_embeddings_batch call and no provider call is made for an empty
\* sub-batch; a sub-batch of two or more fragments has a token total within
\* the budget; a fragment that alone exceeds the budget is alone in its
\* sub-batch; and inside an outer group a sub-batch is closed only when the
\* next fragment would push its total over the budget.
C9_SubBatchesWithinBudget ==
    /\ \A k \in 1..Len(sub_batches) :
          LET sb == sub_batches[k]
          IN  /\ sb.texts # <<>>
              /\ sb.tokens = SumSeq(sb.counts)
              /\ Len(sb.texts) >= 2 => sb.tokens <= TokenBudget
              /\ \A m \in 1..Len(sb.counts) :
                    sb.counts[m] > TokenBudget => Len(sb.texts) = 1
              /\ (k < Len(sub_batches) /\ sub_batches[k + 1].group = sb.group)
                    => sb.tokens + sub_batches[k + 1].counts[1] > TokenBudget
    /\ \A k \in 1..Len(provider_calls) : provider_calls[k].input # <<>>
    /\ Len(current_batch_texts) >= 2 => current_tokens <= TokenBudget

\* C9 witness: a finished call that closed a sub-batch of two fragments inside
\* an outer group and sent an over-budget fragment alone
C9_Witness ==
    /\ pp_pc = "done"
    /\ \E k \in 1..Len(sub_batches) :
          /\ Len(sub_batches[k].texts) >= 2
          /\ k < Len(sub_batches)
          /\ sub_batches[k + 1].group = sub_batches[k].group
    /\ \E k \in 1..Len(sub_batches) :
          sub_batches[k].counts[1] > TokenBudget

\* C10: when the provider call of sub-batch k fails the call ends with the
\* exception: that provider call is the last one made, the store holds the
\* rows of the sub-batches 1..k-1 and no row of a fragment of sub-batch k or
\* of a later fragment.
C10_ProviderFailureAborts ==
    \A c \in 1..Len(provider_calls) :
        provider_calls[c].failed =>
            LET n == Len(sub_batches)
                earlier == UNION {{sub_batches[k].metas[m] : m \in 1..Len(sub_batches[k].metas)}
                                     : k \in 1..(n - 1)}
            IN  /\ c = Len(provider_calls)
                /\ pp_pc = "raised"
                /\ ValidTexts(sub_batches[n].texts) = provider_calls[c].input
                /\ Len(store) = RowsBefore(n)
                /\ \A r \in 1..Len(store) : store[r].file \in earlier

\* C10 witness: the provider call of a later sub-batch failed, rows of the
\* earlier sub-batches are in the store and fragments were still to come
C10_Witness ==
    /\ pp_pc = "raised"
    /\ Len(provider_calls) >= 2
    /\ provider_calls[Len(provider_calls)].failed
    /\ Len(store) >= 1
    /\ inner_j <= Len(batch)

---------------------------------------------------------------------------
\* Claims about ingesting a tree

\* the fragments process_file returned for the k-th file of the running walk
FragmentIds(k) == {processed[k].chunks[j].meta : j \in 1..Len(processed[k].chunks)}

\* C3: every fragment id derived from a path P is mapped back to exactly P by
\* the suffix stripping of get_database_files, and once an ingestion of the
\* tree has returned, the stripped file values of the store are paths of the tree.
C3_StrippedIdsAreIngestedPaths ==
    /\ \A k \in 1..Len(processed) :
          \A id \in FragmentIds(k) : StripChunkSuffix(id) = processed[k].path
    /\ ing_pc = "returned" => get_database_files(store) \subseteq ProjectPaths

\* C6: a file that cannot be opened for lack of permission, whatever its
\* extension, makes process_file return zero fragments without raising, and
\* the walk of process_directory is never left by an exception.
C6_PermissionErrorSkipsFile ==
    /\ \A k \in 1..Len(processed) :
          fs[processed[k].path].mode = "perm"
              => processed[k].exc = "none" /\ processed[k].chunks = <<>>
    /\ ing_pc # "walk_raised"

\* whether a declaration or an import is found in a source text
DeclarationKinds == {"FunctionDef", "ClassDef", "Import", "ImportFrom"}
HasPythonDeclaration(content) ==
    /\ PyParse(content).ok
    /\ \E n \in 1..Len(PyParse(content).body) :
          PyParse(content).body[n].kind \in DeclarationKinds
HasJsDeclaration(content) ==
    \E pat \in {func_pattern, arrow_pattern, class_pattern, export_pattern} :
        findall(pat, content, 1) # <<>>
IsPythonPath(p) == Splitext(Lower(p)) = <<".", "p", "y">>
IsJsPath(p) ==
    /\ IsSupported(Splitext(Lower(p)))
    /\ HandlerOf(Splitext(Lower(p))) \in {"javascript", "typescript"}

\* C7: a Python or JavaScript/TypeScript file in which no declaration and no
\* import is found gets no "_summary" fragment.
C7_NoSummaryWithoutDeclarations ==
    \A k \in 1..Len(processed) :
        LET p == processed[k].path
            found == \/ IsPythonPath(p) /\ HasPythonDeclaration(fs[p].content)
                     \/ IsJsPath(p) /\ HasJsDeclaration(fs[p].content)
        IN  (IsPythonPath(p) \/ IsJsPath(p)) /\ ~found
                => (p \o SummaryTag) \notin FragmentIds(k)

\* C8: whatever ingestions have run, re-ingestions triggered by the scheduler
\* included, no two rows of the store carry the same file identifier.
C8_OneRowPerFragment ==
    \A a, b \in 1..Len(store) : a # b => store[a].file # store[b].file

---------------------------------------------------------------------------
\* More claims about the chunker

\* C11: chunk_text on a text no longer than chunk_size (the empty text
\* included) returns exactly one fragment, whose text is the text unchanged
\* and whose id is the source id without suffix.
C11_ShortTextIsOneFragment ==
    (ck_pc = "text_done" /\ Len(text) <= chunk_size)
        => result = <<[text |-> text, meta |-> source_info]>>

\* C11 witness: a short text with blanks at its ends was returned for a named source
C11_Witness ==
    /\ ck_pc = "text_done"
    /\ Len(text) <= chunk_size
    /\ Strip(text) # text
    /\ source_info # <<>>
    /\ Len(result) = 1

\* C12: on a text longer than chunk_size every window step is taken at a
\* start below len(text) and moves the start strictly forward, also when
\* overlap >= chunk_size, and the loop always has its next step or its return
\* to take: the call ends after at most len(text) window steps.
C12_WindowsAdvanceAndEnd ==
    /\ [][(ck_pc = "text_loop" /\ ck_pc' = "text_loop")
              => (start < Len(text) /\ start' > start)]_vars
    /\ [](ck_pc = "text_loop" => ENABLED (ChunkTextWindow \/ ChunkTextReturn))

\* C12 witness: a call with overlap >= chunk_size that took more than one
\* window step has returned
C12_Witness ==
    /\ ck_pc = "text_done"
    /\ Len(text) > chunk_size
    /\ overlap >= chunk_size
    /\ Len(result) > 1

\* C13: chunk_code emits a fragment only from pending lines that are not
\* empty, and when the lines are exhausted the pending lines, however few,
\* are the last fragment returned.
C13_NoEmptyFragmentFinalEmitted ==
    /\ [][(ck_pc = "code_loop" /\ chunks' # chunks)
              => /\ current_chunk # <<>>
                 /\ chunks' = Append(chunks,
                                     CodeFragment(current_chunk, source_info, chunk_num))]_vars
    /\ [](ck_pc = "code_done"
              => /\ current_chunk # <<>>
                 /\ result # <<>>
                 /\ result[Len(result)]
                        = CodeFragment(current_chunk, source_info, chunk_num))

\* C13 witness: chunk_code returned although its pending lines stayed under chunk_size
C13_Witness ==
    /\ ck_pc = "code_done"
    /\ current_size < chunk_size
    /\ Len(result) = 1

---------------------------------------------------------------------------
\* Claims about searching

\* the scored tuple search_embeddings builds for row k of the store
Scored(k) == ScoreRows(Embed(query), store)[k]

\* the ways of reading results as distinct rows of the store
RowChoices ==
    {m \in [1..Len(results) -> 1..Len(store)] :
        /\ \A i, j \in 1..Len(results) : i # j => m[i] # m[j]
        /\ \A i \in 1..Len(results) : results[i] = Scored(m[i])}

ZeroNorm(v) == Norm(v) = 0
StoreHasZeroNorm == \E k \in 1..Len(store) : ZeroNorm(VectorOf(PickleLoads(store[k].embedding)))

\* C14: for every store content and every top_n >= 0, search returns at most
\* top_n results, no result is followed by one of strictly higher similarity,
\* every result is a row of the store, and no omitted row has a strictly
\* higher similarity than a returned one.
C14_TopNDescending ==
    search_pc = "done" =>
        /\ Len(results) <= top_n
        /\ \A i, j \in 1..Len(results) :
              i < j => ~FloatLt(results[i].similarity, results[j].similarity)
        /\ \E m \in RowChoices :
              \A k \in 1..Len(store) :
                  (\A i \in 1..Len(results) : m[i] # k)
                      => \A i \in 1..Len(results) :
                            ~FloatLt(results[i].similarity, Scored(k).similarity)

\* the same, for a query and rows whose vectors all have a norm above zero
C14_HoldsWithoutZeroNorm ==
    (search_pc = "done" /\ ~StoreHasZeroNorm /\ ~ZeroNorm(ProviderVector(query)))
        => C14_TopNDescending

\* the rows whose stored vector is identical to the query's embedding
IdenticalRows ==
    {k \in 1..Len(store) : VectorOf(PickleLoads(store[k].embedding)) = ProviderVector(query)}

\* the rows of the highest similarity, 1: vector equal or parallel to the query's
ParallelRows == {k \in 1..Len(store) : FloatEq(Scored(k).similarity, Frac(1, 1))}

---------------------------------------------------------------------------
\* Claims about the drift monitor

\* the files of the walk and the trackable paths among them
Walked == WalkedTree(fs, cache, cwd_in_root)
CurrentPaths == {p \in DOMAIN Walked : is_trackable_file(p)}

\* the snapshot a written cache document holds
HasSnapshot == cache.kind = "text"
Snapshot == JsonLoad(cache.content[1]).files

\* detect_changes has just returned (alone or within check_drift)
Detected == drift_pc \in {"detected", "checking"}

\* C16: for every cached snapshot and every filesystem state, detect_changes
\* returns new = current paths minus cached paths, deleted = cached paths
\* minus current paths, and a path of both is in modified if and only if its
\* content hash differs from the cached one, whatever its mtime and size; the
\* three sets are pairwise disjoint.
C16_DetectChangesBySetsAndHash ==
    (Detected /\ HasSnapshot) =>
        /\ report.new_files = CurrentPaths \ DOMAIN Snapshot
        /\ report.deleted_files = DOMAIN Snapshot \ CurrentPaths
        /\ \A p \in CurrentPaths \cap DOMAIN Snapshot :
              p \in report.modified_files <=> get_file_hash(Walked[p]) # Snapshot[p].hash
        /\ report.modified_files \subseteq CurrentPaths \cap DOMAIN Snapshot
        /\ report.new_files \cap report.deleted_files = {}
        /\ report.new_files \cap report.modified_files = {}
        /\ report.deleted_files \cap report.modified_files = {}

\* a file written again with the content it had: another mtime, the same
\* hash, not modified; and a path that is new
C16_Witness ==
    /\ drift_pc = "detected" /\ HasSnapshot
    /\ \E p \in CurrentPaths \cap DOMAIN Snapshot :
          /\ Walked[p].mtime # Snapshot[p].mtime
          /\ get_file_hash(Walked[p]) = Snapshot[p].hash
          /\ p \notin report.modified_files
    /\ report.new_files # {}

\* the paths of the store's rows, chunk suffix removed
StrippedStorePaths == {StripChunkSuffix(store[k].file) : k \in 1..Len(store)}

\* C17: in every check_drift report, stale_in_db is the set of stripped store
\* paths that the walk does not track, and missing_from_db is the set of
\* tracked paths that no store row strips to.
C17_AlignmentIsTwoSetDifferences ==
    drift_pc = "checked" =>
        /\ report.stale_in_db = StrippedStorePaths \ CurrentPaths
        /\ report.missing_from_db = CurrentPaths \ StrippedStorePaths
        /\ \A k \in 1..Len(store) :
              StripChunkSuffix(store[k].file) \notin CurrentPaths
                  => StripChunkSuffix(store[k].file) \in report.stale_in_db

C17_Witness ==
    /\ drift_pc = "checked"
    /\ report.missing_from_db # {}
    /\ \E k \in 1..Len(store) :
          /\ Contains(store[k].file, ChunkTag)
          /\ StripChunkSuffix(store[k].file) \in report.stale_in_db
    /\ \E k \in 1..Len(store) :
          /\ Contains(store[k].file, ChunkTag)
          /\ StripChunkSuffix(store[k].file) \in CurrentPaths

\* C18: in every check_drift report, needs_update is true if and only if a
\* file is new, modified or deleted, or a path is missing from the store or
\* stale in it.
C18_NeedsUpdateIffAnyCount ==
    drift_pc = "checked" =>
        (report.needs_update <=>
            \/ report.new_files # {}
            \/ report.modified_files # {}
            \/ report.deleted_files # {}
            \/ report.missing_from_db # {}
            \/ report.stale_in_db # {})

\* a report without drift: the snapshot is that of the tree and the store
\* holds rows of exactly the tracked files
C18_Witness ==
    /\ drift_pc = "checked"
    /\ ~report.needs_update
    /\ CurrentPaths # {}
    /\ StrippedStorePaths = CurrentPaths

\* C19: update_cache fully replaces the cached snapshot, so that afterwards
\* the cache's paths are exactly the currently trackable files with their
\* current entries, and detect_changes run next on the unchanged tree returns
\* three empty sets.
C19_UpdateCacheReplacesSnapshot ==
    /\ drift_pc = "updated"
           => /\ HasSnapshot
              /\ DOMAIN Snapshot = CurrentPaths
              /\ \A p \in CurrentPaths : Snapshot[p].hash = get_file_hash(Walked[p])
    /\ (drift_pc = "detected" /\ after_update)
           => /\ report.new_files = {}
              /\ report.modified_files = {}
              /\ report.deleted_files = {}

\* the same, for a monitor whose working directory is outside project_root
C19_HoldsOutsideTree == ~cwd_in_root => C19_UpdateCacheReplacesSnapshot

\* the cache document is absent or cannot be parsed
Unparseable == cache.kind = "absent" \/ cache.kind \in DamagedKinds

\* C20: when the cache document is absent or cannot be parsed, loading it
\* does not raise and detect_changes reports every tracked file as new, none
\* as modified or deleted.
C20_UnparseableCacheIsEmptySnapshot ==
    (Unparseable /\ drift_pc \in {"detected", "checking", "raised"})
        => /\ drift_pc # "raised"
           /\ report.new_files = CurrentPaths
           /\ report.modified_files = {}
           /\ report.deleted_files = {}

\* the same, for a document that is absent, unreadable or not JSON
C20_HoldsForTextThatIsNotJson ==
    cache.kind # "undecodable" => C20_UnparseableCacheIsEmptySnapshot

\* C22: in chunk_code, when a line triggers a flush of the pending n-line
\* fragment, the pending lines of the next fragment are that line alone if it
\* is a definition start, and otherwise the last min(5, n) flushed lines, in
\* order, followed by the line; until the next flush lines are only appended,
\* so the next fragment starts with them.
C22_AfterFlushDefinitionOrOverlap ==
    /\ [][(ck_pc = "code_loop" /\ ck_pc' = "code_loop" /\ chunks' # chunks)
              => LET line == lines[line_idx]
                     n == Len(current_chunk)
                 IN  /\ n >= 1
                     /\ IsFunctionStart(line) => current_chunk' = <<line>>
                     /\ ~IsFunctionStart(line)
                            => current_chunk' =
                                   SubSeq(current_chunk, n - Min(5, n) + 1, n) \o <<line>>]_vars
    /\ [][(ck_pc = "code_loop" /\ ck_pc' = "code_loop" /\ chunks' = chunks)
              => current_chunk' = Append(current_chunk, lines[line_idx])]_vars

\* a flush of more than five pending lines by a line that starts no definition
C22_Witness ==
    /\ ck_pc = "code_loop"
    /\ line_idx = Len(lines) + 1
    /\ Len(lines) > 6
    /\ ~IsFunctionStart(lines[Len(lines)])
    /\ Len(current_chunk) = 6
    /\ current_chunk[1] # lines[1]
    /\ chunks # <<>>

\* position i (1-based) of the text lies in an occurrence of an emitted fragment
InSomeFragment(i) ==
    \E k \in 1..Len(result) : \E o \in 0..(Len(text) - Len(result[k].text)) :
        /\ o < i /\ i <= o + Len(result[k].text)
        /\ SubSeq(text, o + 1, o + Len(result[k].text)) = result[k].text

\* the lines of all emitted fragments, one fragment after the other
RECURSIVE FragmentLines(_)
FragmentLines(frags) ==
    IF frags = <<>> THEN <<>>
    ELSE SplitLines(Head(frags).text) \o FragmentLines(Tail(frags))

\* ls can be read off in order within hay
RECURSIVE IsSubsequence(_, _)
IsSubsequence(ls, hay) ==
    IF ls = <<>> THEN TRUE
    ELSE IF hay = <<>> THEN FALSE
    ELSE IF Head(ls) = Head(hay) THEN IsSubsequence(Tail(ls), Tail(hay))
    ELSE IsSubsequence(ls, Tail(hay))

\* C30: chunking loses no content. In chunk_text every window starts at or
\* before the end of the previous one, and every non-whitespace character of
\* the input lies in an emitted fragment; in chunk_code every input line
\* appears, in input order, in the emitted fragments.
C30_ChunkingLosesNoContent ==
    /\ [][(ck_pc = "text_loop" /\ ck_pc' = "text_loop")
              => start' <= WindowEnd(text, start, chunk_size)]_vars
    /\ [](ck_pc = "text_done"
              => \A i \in 1..Len(text) : ~IsSpace(text[i]) => InSomeFragment(i))
    /\ [](ck_pc = "code_done"
              => /\ IsSubsequence(lines, FragmentLines(result))
                 /\ \A i \in 1..Len(lines) :
                       \E k \in 1..Len(result) :
                           \E j \in 1..Len(SplitLines(result[k].text)) :
                               SplitLines(result[k].text)[j] = lines[i])

\* a text cut into windows at sentence ends with blank stretches dropped, and
\* a code whose lines were flushed with overlap
C30_Witness ==
    \/ /\ ck_pc = "text_done" /\ Len(text) > chunk_size /\ Len(result) >= 2
       /\ \E i \in 1..Len(text) : IsSpace(text[i]) /\ ~InSomeFragment(i)
    \/ /\ ck_pc = "code_done" /\ Len(result) >= 3
       /\ Len(FragmentLines(result)) > Len(lines)

---------------------------------------------------------------------------
\* One file ingested: ClaudeBrain.ingest_file (claude_brain.py)

\* the file the command is given
DemoPath == <<"r", "/", "a", ".", "p", "y">>

DefLine == <<"d", "e", "f", " ", "f", "(", "x", ")", ":", " ", "p", "a", "s", "s">>
AsyncDefLine == <<"a", "s", "y", "n", "c", " ">> \o DefLine
ImportLine == <<"i", "m", "p", "o", "r", "t", " ", "x">>

\* a function followed by one line of n characters
DefThenName(n) == DefLine \o <<"\n">> \o [k \in 1..n |-> "x"]

\* the contents of the file: one function alone, after an import, before a
\* long line that brings the file to the chunk size or one character below
\* it, two functions, no function
DemoContents ==
    { DefLine, AsyncDefLine,
      Join(<<ImportLine, DefLine>>, <<"\n">>),
      Join(<<DefLine, DefLine>>, <<"\n">>),
      DefThenName(safe_chunk_size - Len(DefLine) - 1),
      DefThenName(safe_chunk_size - Len(DefLine) - 2),
      <<"x">>, <<>> }

DemoFiles == Readable(DemoContents) \cup {Denied}

\* "claude_brain.py ingest <file>": ingest_file on a file that exists:
\* "chunks = self.processor.process_file(filepath)", then
\* "if chunks: process_texts_batch(chunks, self.db_path)", else "return 0"
IngestFileCall ==
    /\ IngestCallable
    /\ ingests < MaxIngests
    /\ DemoPath \in DOMAIN fs
    /\ LET r == process_file(DemoPath, fs[DemoPath])
       IN  /\ processed' = <<[path |-> DemoPath, exc |-> r.exc, chunks |-> r.chunks,
                               read |-> fs[DemoPath].content]>>
           /\ file_idx' = 1
           /\ ingests' = ingests + 1
           /\ started_by' = "user"
           /\ IF r.exc # "none"
              THEN /\ ing_pc' = "file_raised"
                   /\ all_chunks' = <<>>
                   /\ ing_ret' = <<>>
                   /\ UNCHANGED pipeVars
              ELSE IF r.chunks # <<>>
              THEN /\ EnterProcess(r.chunks, DefaultBatchSize)
                   /\ ing_pc' = "embedding"
                   /\ all_chunks' = r.chunks
                   /\ ing_ret' = <<>>
                   /\ UNCHANGED store
              ELSE /\ ing_pc' = "returned"
                   /\ all_chunks' = <<>>
                   /\ ing_ret' = <<0>>
                   /\ UNCHANGED pipeVars
    /\ UNCHANGED <<fs, token_counts, cache>>
    /\ UNCHANGED notIngest

FileNext ==
    \/ IngestFileCall
    \/ OuterGroup
    \/ InnerAppend
    \/ InnerClose
    \/ FinalSubBatch
    \/ ProcessReturn
    \/ IngestReturn
    \/ IngestRaise

FileSpecInit ==
    /\ chunk_size = safe_chunk_size
    /\ overlap = safe_overlap
    /\ ChunkIdle
    /\ PipeIdle
    /\ store = <<>>
    /\ fs \in [{DemoPath} -> DemoFiles]
    /\ token_counts \in {{1500}, {2500}}
    /\ IngestIdle
    /\ SearchIdle
    /\ DriftUnused
    /\ IgnoreUnused

SpecFile == FileSpecInit /\ [][FileNext]_vars

---------------------------------------------------------------------------
\* Claims about one ingested Python file

DemoContent == fs[DemoPath].content

\* the lines of the file that declare a function, with or without "async"
PlainDefLines(content) ==
    {k \in 1..Len(SplitLines(content)) : StartsWith(SplitLines(content)[k], <<"d", "e", "f", " ">>)}
AsyncDefLines(content) ==
    {k \in 1..Len(SplitLines(content)) :
        StartsWith(SplitLines(content)[k], <<"a", "s", "y", "n", "c", " ", "d", "e", "f", " ">>)}

\* "name(params)" as written on a declaration line: from the name to the ")"
Signature(line) ==
    LET from == IF StartsWith(line, <<"a", "s", "y", "n", "c", " ">>) THEN 11 ELSE 5
    IN  SubSeq(line, from, SetMin({k \in 1..Len(line) : line[k] = ")"}))

\* the first ingestion of the file by the command has returned
FileIngested ==
    /\ ing_pc = "returned"
    /\ ingests = 1
    /\ DemoPath \in DOMAIN fs
    /\ fs[DemoPath].mode = "ok"

\* two fragments, the summary first with the function's line, then the whole
\* file as chunk 0, and two rows in the store
SummaryThenOneChunk(line) ==
    /\ Len(all_chunks) = 2
    /\ all_chunks[1].meta = DemoPath \o <<"_", "s", "u", "m", "m", "a", "r", "y">>
    /\ \E k \in 1..Len(SplitLines(all_chunks[1].text)) :
           SplitLines(all_chunks[1].text)[k]
               = <<"F", "u", "n", "c", "t", "i", "o", "n", ":", " ">> \o Signature(line)
    /\ all_chunks[2].text = DemoContent
    /\ all_chunks[2].meta = DemoPath \o <<"_", "c", "h", "u", "n", "k", "_", "0">>
    /\ Len(store) = 2
    /\ ing_ret = <<2>>

---------------------------------------------------------------------------
\* Trees with other file names, ingested by the command

NamedPaths == {<<"r", "/", "a", ".", "p", "y">>, SummaryNamedPath, <<"r", "/", "d">>}

NamedChoices(p) ==
    CASE p = <<"r", "/", "a", ".", "p", "y">> -> Readable({DefLine, ImportLine, <<"x">>, <<>>}) \cup {Denied}
      [] p = SummaryNamedPath -> Readable({<<"s">>, <<>>})
      [] p = <<"r", "/", "d">> -> Readable({<<"a">>, <<"a", ".", " ", "b">>})

\* every tree that holds some of the names
NamedTrees ==
    UNION {{t \in [ps -> UNION {NamedChoices(p) : p \in ps}] : \A p \in ps : t[p] \in NamedChoices(p)} :
              ps \in SUBSET NamedPaths}

NamedNext ==
    \/ IngestDirectoryCall
    \/ ProcessNextFile
    \/ WalkDone
    \/ OuterGroup
    \/ InnerAppend
    \/ InnerClose
    \/ FinalSubBatch
    \/ ProcessReturn
    \/ IngestReturn
    \/ IngestRaise

NamedSpecInit ==
    /\ chunk_size = safe_chunk_size
    /\ overlap = safe_overlap
    /\ ChunkIdle
    /\ PipeIdle
    /\ store = <<>>
    /\ fs \in NamedTrees
    /\ token_counts = IngestTokenCounts
    /\ IngestIdle
    /\ SearchIdle
    /\ DriftUnused
    /\ IgnoreUnused

SpecNamed == NamedSpecInit /\ [][NamedNext]_vars

\* C23: the fragments of one ingestion of a tree have pairwise distinct
\* source_ids, whatever the file names are
C23_FragmentIdsPairwiseDistinct ==
    \A i, j \in 1..Len(all_chunks) :
        all_chunks[i].meta = all_chunks[j].meta => i = j

\* within one file the ids are pairwise distinct, and ids of different files
\* differ unless one file's name is an id of the other
C23_HoldsWithinAFile ==
    \A k \in 1..Len(processed) :
        \A i, j \in 1..Len(processed[k].chunks) :
            processed[k].chunks[i].meta = processed[k].chunks[j].meta => i = j

---------------------------------------------------------------------------
\* The two ignore filters asked about one file

IgnoreNext ==
    \/ AskFileProcessor
    \/ AskDriftMonitor

IgnoreSpecInit ==
    /\ ChunkUnused
    /\ PipeIdle
    /\ store = <<>>
    /\ IngestUnused
    /\ SearchIdle
    /\ DriftUnused
    /\ ignore_patterns \in SeqsUpTo(IgnoreLines, MaxPatterns)
    /\ ignore_path \in IgnorePaths
    /\ fp_ignore = <<>>
    /\ dm_ignore = <<>>

SpecIgnore == IgnoreSpecInit /\ [][IgnoreNext]_vars

BothAsked == fp_ignore # <<>> /\ dm_ignore # <<>>

\* C29: for every list of ignore patterns and every path of an extension both
\* walkers handle, FileProcessor._should_ignore and DriftMonitor._should_ignore
\* give the same answer
C29_WalkersTakeSameIgnoreDecision ==
    BothAsked => fp_ignore = dm_ignore

\* the two filters agree when every pattern is an extension pattern "*.ext"
C29_AgreeOnExtensionPatterns ==
    (BothAsked /\ \A k \in 1..Len(ignore_patterns) :
                      /\ StartsWith(ignore_patterns[k], <<"*", ".">>)
                      /\ ~Contains(Tail(ignore_patterns[k]), <<"*">>)
                      /\ ~Contains(ignore_patterns[k], <<"?">>)
                      /\ ~Contains(ignore_patterns[k], <<"/">>))
        => fp_ignore = dm_ignore

---------------------------------------------------------------------------
\* Automatic updates on a tree that changes: the scheduler's check, the
\* --auto-update check, the ingest command they start, writes and removals

\* a walk lists the names of the tree once: names appear and disappear
\* between walks, contents change at any time
MonitorWrite == WriteFile /\ (ing_pc = "walking" => DOMAIN fs' = DOMAIN fs)
MonitorDelete == DeleteFile /\ ing_pc # "walking"

MonitorTrees == UNION {[S -> Readable({<<"x">>})] : S \in SUBSET DriftPaths}

MonitorNext ==
    \/ ScheduledCheck
    \/ AutoUpdateCheck
    \/ ProcessNextFile
    \/ WalkDone
    \/ OuterGroup
    \/ InnerAppend
    \/ InnerClose
    \/ FinalSubBatch
    \/ ProcessReturn
    \/ IngestReturn
    \/ IngestRaise
    \/ MonitorWrite
    \/ MonitorDelete

MonitorSpecInit ==
    /\ chunk_size = safe_chunk_size
    /\ overlap = safe_overlap
    /\ ChunkIdle
    /\ PipeIdle
    /\ store = <<>>
    /\ fs \in MonitorTrees
    /\ token_counts = IngestTokenCounts
    /\ IngestIdle
    /\ SearchIdle
    /\ DriftUnused
    /\ IgnoreUnused

SpecMonitor == MonitorSpecInit /\ [][MonitorNext]_vars

---------------------------------------------------------------------------
\* Claims about automatic updates

\* the report a check would give now
DriftNow == check_drift(fs, cache, store)

\* the running or last command was started by a check
Automatic == started_by \in {"scheduler", "auto_update"}
Failed == ing_pc \in {"walk_raised", "embed_raised"}
Running == ing_pc \in {"walking", "embedding"}

\* the number of the command whose end wrote the cache document
CacheWrittenBy == JsonLoad(cache.content[1]).timestamp

\* C24: an automatic update refreshes the cache only after the re-ingestion it
\* triggered has completed successfully: no document is written by a command
\* that is running or has failed; and after a failed re-ingestion of an
\* unchanged tree the next check reports drift again
C24_CacheRefreshedOnlyAfterSuccess ==
    /\ (Automatic /\ (Running \/ Failed) /\ HasSnapshot) => CacheWrittenBy < ingests
    /\ (Automatic /\ (Running \/ Failed) /\ ingests = 1) => cache = CacheAbsent
    /\ (Automatic /\ Failed /\ edits = 0) => DriftNow.needs_update

\* the same for the commands the scheduler starts
C24_HoldsForScheduler ==
    /\ (started_by = "scheduler" /\ (Running \/ Failed) /\ HasSnapshot) => CacheWrittenBy < ingests
    /\ (started_by = "scheduler" /\ (Running \/ Failed) /\ ingests = 1) => cache = CacheAbsent
    /\ (started_by = "scheduler" /\ Failed /\ edits = 0) => DriftNow.needs_update
    /\ (started_by = "scheduler" /\ ing_pc = "returned") => HasSnapshot /\ CacheWrittenBy = ingests

\* the paths a report names, on either side
Reported(r) ==
    r.new_files \cup r.modified_files \cup r.deleted_files
        \cup r.missing_from_db \cup r.stale_in_db

\* the first command, started by a check on the empty store without a cache
\* document, has returned and update_cache has run; the tree was not touched
FirstUpdateDone == ing_pc = "returned" /\ Automatic /\ ingests = 1 /\ edits = 0

\* C25: after one successful ingestion of a tree into an empty store followed
\* by update_cache, with no filesystem change since, check_drift reports
\* needs_update = false and five empty sets, for any tree
C25_NoDriftAfterIngestAndCacheUpdate ==
    FirstUpdateDone => ~DriftNow.needs_update /\ Reported(DriftNow) = {}

\* the same for trees of Markdown files
C25_HoldsForMarkdownTree ==
    (FirstUpdateDone /\ DOMAIN fs = {<<"r", "/", "c", ".", "m", "d">>})
        => ~DriftNow.needs_update /\ Reported(DriftNow) = {}

\* C26: the check-and-update cycle converges: a successful automatic update
\* that found nothing to ingest, and so leaves the store as it was, ends
\* without drift; otherwise every later update of the unchanged tree ends in
\* the same store, the same snapshot and the same report
C26_UpdateCycleConverges ==
    (ing_pc = "returned" /\ Automatic /\ all_chunks = <<>>) => ~DriftNow.needs_update

\* the tracked files whose content is no longer what the last command read
ChangedSinceRead ==
    {p \in DOMAIN fs : /\ is_trackable_file(p)
                       /\ \E k \in 1..Len(processed) :
                             processed[k].path = p /\ processed[k].read # fs[p].content}

\* an update of a Markdown tree from which nothing was removed, and to which
\* nothing was written while the command ran, ends without drift
C26_ConvergesWithoutRemoval ==
    (/\ ing_pc = "returned" /\ Automatic
     /\ DOMAIN fs = {<<"r", "/", "c", ".", "m", "d">>}
     /\ ChangedSinceRead = {}
     /\ \A k \in 1..Len(store) : store[k].file = <<"r", "/", "c", ".", "m", "d">>)
        => ~DriftNow.needs_update

\* C27: no content change is lost: a tracked file whose content differs from
\* what was last ingested is reported by check_drift as new, modified or
\* missing, or a re-ingestion is due, also when the file was written while the
\* automatic re-ingestion ran
C27_NoContentChangeLost ==
    (ing_pc = "returned" /\ Automatic) =>
        \A p \in ChangedSinceRead :
            \/ p \in DriftNow.new_files \cup DriftNow.modified_files \cup DriftNow.missing_from_db
            \/ DriftNow.needs_update

---------------------------------------------------------------------------
\* Claims about a check_drift that runs while the tree changes

\* C28: the two parts of one check_drift report describe one filesystem
\* snapshot, also when files are created or deleted while check_drift runs:
\* every path in new_files is among the files counted in files_in_fs, no
\* path in deleted_files is
C28_ReportDescribesOneSnapshot ==
    drift_pc = "checked" =>
        /\ report.files_in_fs = Cardinality(CurrentPaths)
        /\ report.new_files \subseteq CurrentPaths
        /\ report.deleted_files \cap CurrentPaths = {}

\* the same for a check_drift during which nothing was touched
C28_HoldsWhenTreeUntouched ==
    [][(drift_pc = "checking" /\ drift_pc' = "checked")
           => /\ report'.files_in_fs = Cardinality(CurrentPaths)
              /\ report'.new_files \subseteq CurrentPaths
              /\ report'.deleted_files \cap CurrentPaths = {}]_vars

====
